---- MODULE Spec2Model ----
(***************************************************************************)
(* A model of the asset decoding core of faery-tale-rs:                    *)
(*   - Palette::to_rgba32_table                (src/src/game/colors.rs)    *)
(*   - BitMap construction and RGBA conversion (src/src/game/bitmap.rs)    *)
(*   - the ByteRun1 decoder of the BODY chunk  (src/src/game/iff_image.rs) *)
(*   - the byte-cursor reads                   (src/src/game/byteops.rs)   *)
(*   - the IFF chunk loop                      (src/src/game/iff_image.rs) *)
(*   - the segment container loader            (src/src/game/hunk.rs)      *)
(*   - the font payload parser                 (src/src/game/font.rs)      *)
(*                                                                         *)
(* Conventions.  Rust vectors are 0-based, TLA+ sequences are 1-based: a   *)
(* Rust index i is the sequence index i + 1.  Option<T> is a sequence of   *)
(* at most one element (<<>> is None, <<v>> is Some(v)).  A u32 colour is   *)
(* kept as two 16-bit limbs <<high, low>>, because the model checker's     *)
(* integers are 32-bit signed and 0xFFFFFFFF does not fit in them.  A      *)
(* Result is a record with a status "Ok" / "Err"; a Rust panic (an index   *)
(* or slice out of range) is the status "Panic", after which the object    *)
(* takes no further step.                                                  *)
(***************************************************************************)
EXTENDS Integers, Sequences, FiniteSets, TLC

----------------------------------------------------------------------------
(* Bounds of the model *)

\* largest bitmap width of the conversion specification
MaxWidth == 9
\* largest bitmap height of the conversion specification
MaxHeight == 2
\* number of plane-byte writes made behind the bitmap's back
MaxMutations == 1
\* largest width and height handed to BitMap::build in SpecBuild
MaxBuildWidth == 40
MaxBuildHeight == 2
\* longest palette handed to Palette::to_rgba32_table in SpecPalette
MaxPaletteLen == 33
\* longest enumerated BODY chunk
MaxBodyLen == 4
\* longest buffer handed to the byte-cursor reads in SpecByteOps
MaxCursorLen == 4
\* most chunks in an enumerated ILBM file, and the longest declared length of
\* a CMAP, BODY or unrecognized chunk
MaxChunks == 2
MaxChunkLen == 5
\* most blocks after the header of an enumerated hunk file, and the largest
\* declared size of a segment in 32-bit words
MaxBlocks == 2
MaxSegWords == 2

\* load_font: rows and bytes per row of the packed bitmap, glyphs of a font
MaxFontRows == 2
MaxFontModulo == 2
MaxGlyphs == 2

\* update_rgb32 on a caller's buffer: bitmap sizes, buffer lengths, strides
MaxUpdateWidth == 2
MaxUpdateHeight == 2
MaxBufferLen == 10
MaxCallerStride == 9

\* GameClock: advances of real time, days of the wall clock
MaxElapses == 5
MaxDay == 1

\* PlacardRenderer::update: the small values of delta_ticks
MaxDelta == 2

\* load_game_library: font assets, sizes of a font, image assets
MaxLibFonts == 2
MaxFontSizes == 2
MaxLibImages == 2

(* Program constants *)

\* BitMap::build and Palette::to_rgba32_table accept depth 1..=5
MinDepth == 1
MaxDepth == 5

----------------------------------------------------------------------------
(* Integer helpers *)

Pow2(n) == 2 ^ n

\* (b >> i) & 0x01
Bit(b, i) == (b \div Pow2(i)) % 2

\* data[start..end] of Rust (0-based, end exclusive)
Slice(data, start, end) == [i \in 1..(end - start) |-> data[start + i]]

Zeros(n) == [i \in 1..n |-> 0]

----------------------------------------------------------------------------
(* colors.rs: RGB4 and Palette *)

\* a mutant of Nibble8: the nibble is shifted up and not replicated
Nibble8_Shifted(n) == n * 16

\* (nibble | (nibble << 4)) as u8
Nibble8(n) == n + n * 16

RGB4_r(c) == Nibble8((c \div 256) % 16)
RGB4_g(c) == Nibble8((c \div 16) % 16)
RGB4_b(c) == Nibble8(c % 16)

\* (r << 24) | (g << 16) | (b << 8) | a as the limbs <<high 16 bits, low 16 bits>>
Rgba32(r, g, b, a) == <<r * 256 + g, b * 256 + a>>

\* ((color >> shift) & 0xFF) for shift = 24, 16, 8, 0 (k = 0, 1, 2, 3)
ColorByte(color, k) ==
    CASE k = 0 -> color[1] \div 256
      [] k = 1 -> color[1] % 256
      [] k = 2 -> color[2] \div 256
      [] OTHER -> color[2] % 256

Transparent == <<0, 0>>

TableEntry(colors, i) ==
    IF i < Len(colors)
    THEN Rgba32(RGB4_r(colors[i + 1]), RGB4_g(colors[i + 1]), RGB4_b(colors[i + 1]), 255)
    ELSE Transparent

TableSize(depth) == Pow2(depth)

DepthRejected(depth) == depth < MinDepth \/ depth > MaxDepth

ToRgba32Table(colors, depth) ==
    IF DepthRejected(depth)
    THEN [status |-> "Err", error |-> "Palette depth must be 1 to 5 inclusive",
          table |-> <<>>]
    ELSE [status |-> "Ok", error |-> "",
          table |-> [i \in 1..TableSize(depth) |-> TableEntry(colors, i - 1)]]

----------------------------------------------------------------------------
(* bitmap.rs: construction *)

NewBitMap ==
    [width |-> 0, height |-> 0, depth |-> 0, stride |-> 0, planes |-> <<>>]

\* a mutant of RasSize: the width is rounded down to whole words
RasSize_RoundDown(width) == ((width \div 8) \div 2) * 2

\* ((width + 15) >> 3) & !1
RasSize(width) == (((width + 15) \div 8) \div 2) * 2

\* a mutant of BuildRejected: the upper limit is off by one
BuildRejected_OffByOne(depth) == depth < MinDepth \/ depth > MaxDepth + 1

BuildRejected(depth) == depth < MinDepth \/ depth > MaxDepth

NewPlane(plane_size) == [i \in 1..plane_size |-> 0]

Build(width, height, depth) ==
    IF BuildRejected(depth)
    THEN [status |-> "Err", error |-> "BitMap depth must be 1 to 5 inclusive",
          bitmap |-> NewBitMap]
    ELSE [status |-> "Ok", error |-> "",
          bitmap |-> [width |-> width, height |-> height, depth |-> depth,
                      stride |-> RasSize(width),
                      planes |-> [pp \in 1..depth |->
                                     NewPlane(RasSize(width) * height)]]]

\* data[start..end] panics when the slice leaves the vector
WithDataPanics(data, height, depth, stride) ==
    \E pp \in 0..(depth - 1) : pp * (stride * height) + stride * height > Len(data)

WithData(data, width, height, depth, stride) ==
    LET plane_size == stride * height
    IN [width |-> width, height |-> height, depth |-> depth, stride |-> stride,
        planes |-> [pp \in 1..depth |->
                      Slice(data, (pp - 1) * plane_size,
                                  (pp - 1) * plane_size + plane_size)]]

WithInterleavedDataPanics(data, height, depth, stride) ==
    \E it \in 0..(height * depth - 1) : it * stride + stride > Len(data)

\* a mutant of NextPlaneIndex: the plane index never advances
NextPlaneIndex_Stuck(plane_index, depth) == plane_index

\* plane_index += 1; if plane_index >= depth { plane_index = 0 }
NextPlaneIndex(plane_index, depth) ==
    IF plane_index + 1 >= depth THEN 0 ELSE plane_index + 1

\* the row loop: it counts the iterations of `for _ in 0..height*depth`
RECURSIVE InterleavedRows(_, _, _, _, _, _, _)
InterleavedRows(data, planes, plane_index, offset, it, count, shape) ==
    IF it >= count
    THEN planes
    ELSE LET row_start == offset
             row_end   == row_start + shape.stride
         IN InterleavedRows(
                data,
                [planes EXCEPT ![plane_index + 1] = @ \o Slice(data, row_start, row_end)],
                NextPlaneIndex(plane_index, shape.depth),
                offset + shape.stride,
                it + 1, count, shape)

WithInterleavedData(data, width, height, depth, stride) ==
    [width |-> width, height |-> height, depth |-> depth, stride |-> stride,
     planes |-> InterleavedRows(data, [pp \in 1..depth |-> <<>>], 0, 0, 0,
                                height * depth,
                                [depth |-> depth, stride |-> stride])]

----------------------------------------------------------------------------
(* bitmap.rs: conversion to RGBA32 *)

\* yy * self.stride + (xx >> 3)
ByteIndex(bm, xx, yy) == yy * bm.stride + (xx \div 8)

\* a mutant of BitIndex: the bits of a byte are taken LSB first
BitIndex_LsbFirst(xx) == xx % 8

\* 7 - (xx & 0x07)
BitIndex(xx) == 7 - (xx % 8)

\* the plane loop: pixel_index |= bit << pp, for pp in 0..depth
RECURSIVE PixelIndex(_, _, _, _)
PixelIndex(bm, xx, yy, pp) ==
    IF pp >= bm.depth
    THEN 0
    ELSE Bit(bm.planes[pp + 1][ByteIndex(bm, xx, yy) + 1], BitIndex(xx)) * Pow2(pp)
         + PixelIndex(bm, xx, yy, pp + 1)

\* self.planes[pp] or plane[byte_index] out of range
ScanPanics(bm) ==
    \E yy \in 0..(bm.height - 1), xx \in 0..(bm.width - 1), pp \in 0..(bm.depth - 1) :
        \/ pp + 1 > Len(bm.planes)
        \/ ByteIndex(bm, xx, yy) + 1 > Len(bm.planes[pp + 1])

\* the index scan, row by row (yy outer, xx inner)
ScanIndex(bm) ==
    [n \in 1..(bm.width * bm.height) |->
        PixelIndex(bm, (n - 1) % bm.width, (n - 1) \div bm.width, 0)]

\* if let Some(key_index) = key_color { if key_index < color_table.len() { ... = 0 } }
KeyApplies(key_index, color_table) == key_index < Len(color_table)

\* a mutant of ApplyKeyColor: the key entry loses its alpha but keeps its colour
ApplyKeyColor_AlphaOnly(color_table, key_color) ==
    [i \in 1..Len(color_table) |->
        IF /\ key_color # <<>>
           /\ KeyApplies(key_color[1], color_table)
           /\ i - 1 = key_color[1]
        THEN <<color_table[i][1], (color_table[i][2] \div 256) * 256>>
        ELSE color_table[i]]

ApplyKeyColor(color_table, key_color) ==
    [i \in 1..Len(color_table) |->
        IF /\ key_color # <<>>
           /\ KeyApplies(key_color[1], color_table)
           /\ i - 1 = key_color[1]
        THEN Transparent
        ELSE color_table[i]]

\* a mutant of NeedsIndexScan: the index buffer is rebuilt on every call
NeedsIndexScan_Always(index_buffer) == TRUE

\* if self.index_buffer.borrow().is_none()
NeedsIndexScan(index_buffer) == index_buffer = <<>>

\* *self.index_buffer.borrow_mut() = Some(index_buffer)
CacheIndexBuffer(index_buffer, bm) ==
    IF NeedsIndexScan(index_buffer) THEN <<ScanIndex(bm)>> ELSE index_buffer

\* one row of the output loop; a write at or past pixels.len() panics, so the
\* row is written up to the end of the buffer
WriteRow(pixels, bm, indices, color_table, stride, row) ==
    [j \in 1..Len(pixels) |->
        LET off == (j - 1) - row * stride
        IN IF off >= 0 /\ off < bm.width * 4
           THEN ColorByte(color_table[indices[row * bm.width + (off \div 4) + 1] + 1],
                          off % 4)
           ELSE pixels[j]]

RowPanics(len, bm, stride, row) ==
    bm.width > 0 /\ row * stride + bm.width * 4 > len

RECURSIVE WriteRows(_, _, _, _, _, _)
WriteRows(pixels, bm, indices, color_table, stride, row) ==
    IF row >= bm.height
    THEN pixels
    ELSE LET written == WriteRow(pixels, bm, indices, color_table, stride, row)
         IN IF RowPanics(Len(pixels), bm, stride, row)
            THEN written
            ELSE WriteRows(written, bm, indices, color_table, stride, row + 1)

WritePanics(len, bm, stride) ==
    \E row \in 0..(bm.height - 1) : RowPanics(len, bm, stride, row)

\* a mutant of ConvertRows: once the index cache exists the pixel buffer is
\* taken to be current and is not written again
ConvertRows_KeepsPixels(bm, index_buffer, pixels, stride, color_table) ==
    IF index_buffer # <<>>
    THEN [status |-> "Ok", error |-> "", pixels |-> pixels,
          index_buffer |-> index_buffer]
    ELSE [status |-> IF WritePanics(Len(pixels), bm, stride) THEN "Panic" ELSE "Ok",
          error |-> "",
          pixels |-> WriteRows(pixels, bm, ScanIndex(bm), color_table, stride, 0),
          index_buffer |-> <<ScanIndex(bm)>>]

\* the cache is filled if it is empty, then read back and the rows are written
ConvertRows(bm, index_buffer, pixels, stride, color_table) ==
    LET cached  == CacheIndexBuffer(index_buffer, bm)
        written == WriteRows(pixels, bm, cached[1], color_table, stride, 0)
    IN [status |-> IF WritePanics(Len(pixels), bm, stride) THEN "Panic" ELSE "Ok",
        error |-> "", pixels |-> written, index_buffer |-> cached]

\* a variant of UpdateRgb32: the index cache is filled before the buffer and
\* the depth are checked
UpdateRgb32_ScansFirst(bm, index_buffer, pixels, stride, colors, key_color) ==
    LET lut == ToRgba32Table(colors, bm.depth)
    IN IF NeedsIndexScan(index_buffer) /\ ScanPanics(bm)
       THEN [status |-> "Panic", error |-> "",
             pixels |-> pixels, index_buffer |-> index_buffer]
       ELSE IF Len(pixels) < bm.width * bm.height * 4
       THEN [status |-> "Err",
             error |-> "Provided pixel buffer is too small for BitMap dimensions",
             pixels |-> pixels, index_buffer |-> CacheIndexBuffer(index_buffer, bm)]
       ELSE IF lut.status = "Err"
       THEN [status |-> "Err", error |-> lut.error,
             pixels |-> pixels, index_buffer |-> CacheIndexBuffer(index_buffer, bm)]
       ELSE ConvertRows(bm, index_buffer, pixels, stride,
                        ApplyKeyColor(lut.table, key_color))

BufferTooSmall(pixels, bm) == Len(pixels) < bm.width * bm.height * 4

UpdateRgb32(bm, index_buffer, pixels, stride, colors, key_color) ==
    IF BufferTooSmall(pixels, bm)
    THEN [status |-> "Err",
          error |-> "Provided pixel buffer is too small for BitMap dimensions",
          pixels |-> pixels, index_buffer |-> index_buffer]
    ELSE LET lut == ToRgba32Table(colors, bm.depth)
         IN IF lut.status = "Err"
            THEN [status |-> "Err", error |-> lut.error,
                  pixels |-> pixels, index_buffer |-> index_buffer]
            ELSE IF NeedsIndexScan(index_buffer) /\ ScanPanics(bm)
            THEN [status |-> "Panic", error |-> "",
                  pixels |-> pixels, index_buffer |-> index_buffer]
            ELSE ConvertRows(bm, index_buffer, pixels, stride,
                             ApplyKeyColor(lut.table, key_color))

\* returns (pixels, self.width * 4) on success
GenerateRgb32(bm, index_buffer, colors, key_color) ==
    LET r == UpdateRgb32(bm, index_buffer, Zeros(bm.width * bm.height * 4),
                         bm.width * 4, colors, key_color)
    IN [status |-> r.status, error |-> r.error, pixels |-> r.pixels,
        stride |-> bm.width * 4, index_buffer |-> r.index_buffer]

----------------------------------------------------------------------------
(* Inputs of the conversion specification *)

\* 0x006 blue, 0xFFF white, 0x390 green, 0x000 black (bitmap.rs tests)
TestPalette == <<6, 4095, 912, 0>>

\* the test palette, and a two-colour one (0xF00, 0x0F0) shorter than most tables
Palettes == {TestPalette, <<3840, 240>>}

\* no key colour, a key inside every table, and the first key outside the table
KeyColors(depth) == {<<>>, <<1>>, <<Pow2(depth)>>}

\* the contents of the logical bitmaps
PatternSeeds == {0, 1}

Widths  == {0, 1, MaxWidth}
Heights == 0..MaxHeight
Depths  == (MinDepth - 1)..(MaxDepth + 1)

\* the word-aligned stride of the width, and the unpadded single byte
Strides(width) == {RasSize(width), 1}

Shapes ==
    {[width |-> w, height |-> h, depth |-> d, stride |-> s, pat |-> q] :
        w \in Widths, h \in Heights, d \in Depths, s \in 0..2, q \in PatternSeeds}

Logicals == {L \in Shapes : L.stride \in Strides(L.width)}

\* byte j of plane p of the logical bitmap number pat
PatByte(pat, p, j) == ((pat + 1) * 37 + p * 101 + j * 59) % 256

LogicalPlanes(L) ==
    [pp \in 1..L.depth |->
        [j \in 1..(L.stride * L.height) |-> PatByte(L.pat, pp - 1, j - 1)]]

\* plane 0, then plane 1, ... (build_test_bitmap)
ContiguousData(L) ==
    LET plane_size == L.stride * L.height
    IN [n \in 1..(L.depth * plane_size) |->
           LogicalPlanes(L)[((n - 1) \div plane_size) + 1][((n - 1) % plane_size) + 1]]

\* row 0 of plane 0, row 0 of plane 1, ..., row 1 of plane 0, ...
\* (build_interleaved_test_bitmap)
InterleavedData(L) ==
    [n \in 1..(L.depth * L.stride * L.height) |->
        LET row_no == (n - 1) \div L.stride
            col    == (n - 1) % L.stride
            yy     == row_no \div L.depth
            pp     == row_no % L.depth
        IN LogicalPlanes(L)[pp + 1][yy * L.stride + col + 1]]

\* the data handed to a constructor: complete, or one byte short
Cut(data, short) == IF short /\ data # <<>> THEN SubSeq(data, 1, Len(data) - 1) ELSE data

----------------------------------------------------------------------------
(* State *)

VARIABLES
    src,           \* how the BitMap was constructed: the constructor and its input
    bitmap,        \* BitMap: width, height, depth, stride, planes
    index_buffer,  \* BitMap.index_buffer: RefCell<Option<Vec<usize>>>
    mutations,     \* number of writes to bitmap.planes made after construction
    pixels,        \* the caller's pixel buffer (ImageTexture.pixels_32)
    pix_stride,    \* the caller's stride (ImageTexture.stride)
    last           \* the last operation, its arguments and its result

bmVars == <<src, bitmap, index_buffer, mutations, pixels, pix_stride, last>>

VARIABLES
    palette,     \* Palette.colors, each RGB4.color
    table_call   \* the last to_rgba32_table call: its depth and what it returned

palVars == <<palette, table_call>>

VARIABLES
    input_data,   \* the whole file
    offset,       \* start of the chunk's data; past the chunk once it is decoded
    chunk_size,   \* the chunk's declared length
    body_offset,  \* bytes of the chunk consumed so far
    pixel_data,   \* bytes decoded so far
    image_pixels, \* IffImage.pixels
    body_status   \* "idle", "decoding", then "Ok", "Err" or "Panic"

rleVars == <<input_data, offset, chunk_size, body_offset, pixel_data, image_pixels,
             body_status>>

VARIABLES
    cursor_data,    \* byteops: the buffer handed to a read (`data`)
    cursor_offset,  \* byteops: the caller's offset (`*offset`)
    cursor_last     \* byteops: the last read, where it started, what it returned

rdVars == <<cursor_data, cursor_offset, cursor_last>>

VARIABLES
    iff_data,        \* load_from_data: input_data, the whole file
    iff_offset,      \* load_from_data: offset
    iff_chunk,       \* the chunk processed last: its id, data start and length
    iff_compressed,  \* load_from_data: compressed
    iff_image,       \* load_from_data: image
    iff_status       \* "idle", "start", "chunks", then "Ok", "Err" or "Panic"

iffVars == <<iff_data, iff_offset, iff_chunk, iff_compressed, iff_image, iff_status>>

VARIABLES
    hunk_file,    \* load_hunkfile: file_data
    hunk_offset,  \* load_hunkfile: offset
    hunk,         \* load_hunkfile: hunk, the HunkData being built
    hunk_index,   \* load_hunkfile: hunk_index
    hunk_tag,     \* the type tag read last (hunk_id) and where it was read
    hunk_status   \* "idle", "start", "tags", then "Ok" or "Panic"

hunkVars == <<hunk_file, hunk_offset, hunk, hunk_index, hunk_tag, hunk_status>>

VARIABLES
    font_hunk,    \* load_font: hunk, what load_hunkfile returned
    font,         \* load_font: disk_font
    font_refs,    \* load_font: the table offsets read from the payload, char_count
    font_yy,      \* load_font: yy, the row the unpacking loop is at
    font_index,   \* load_font: index, the glyph the table loop is at
    font_status   \* "idle", "start", "unpack", "chars", then "Ok", "Err" or "Panic"

fontVars == <<font_hunk, font, font_refs, font_yy, font_index, font_status>>

VARIABLES
    lib_fonts,     \* load_game_library: game_lib.fonts, in the order the loop takes them
    lib_images,    \* load_game_library: game_lib.images, in the order the loop takes them
    lib_at,        \* the number of assets the two loops have taken
    lib_loaded,    \* for each asset taken: whether it is loaded, the font sizes inserted
    lib_warnings,  \* the number of warnings printed
    lib_status     \* "idle", "loading", then "Ok", "Err" or "Panic"

libVars == <<lib_fonts, lib_images, lib_at, lib_loaded, lib_warnings, lib_status>>

VARIABLES
    settings,   \* a GameSettings object
    set_last    \* the call made last: its name, its argument, whether the file was written

setVars == <<settings, set_last>>

VARIABLES
    clock,        \* a GameClock: total_ticks, game_ticks, paused, and its ticker's
                  \* accumulated_nanos
    clock_since,  \* Instant::now() - ticker.last_update, in nanoseconds
    clock_run,    \* the real time that has passed while the clock was not paused
    clock_steps,  \* the number of times real time has advanced
    clock_args,   \* the (day, hour, minute) a wall-clock call is made with
    clock_last    \* the call made last and what it returned

clockVars == <<clock, clock_since, clock_run, clock_steps, clock_args, clock_last>>

VARIABLES
    plac,          \* a PlacardRenderer: block_index, segment_index, xorg, yorg
    plac_drawn,    \* the lines the last update drew in colors[1], in order
    plac_preview,  \* the lines the last update drew in colors[0], in order
    plac_last      \* the last call: its delta_ticks, the step it started at, its result

placVars == <<plac, plac_drawn, plac_preview, plac_last>>

\* the variables of the library loader, the settings, the clock and the placard
appVars == <<libVars, setVars, clockVars, placVars>>

\* appVars without the variables of one of the four
notLib == <<setVars, clockVars, placVars>>
notSet == <<libVars, clockVars, placVars>>
notClock == <<libVars, setVars, placVars>>
notPlac == <<libVars, setVars, clockVars>>

\* the variables of the loaders built on byteops
loadVars == <<rdVars, iffVars, hunkVars, fontVars>>

\* the variables of the palette, the bitmap and the ByteRun1 decoder
decodeVars == <<bmVars, palVars, rleVars>>

vars == <<bmVars, palVars, rleVars, loadVars, appVars>>

NoShape == [width |-> 0, height |-> 0, depth |-> 0, stride |-> 0, pat |-> 0]

Last(op, colors, key_color, stride, status) ==
    [op |-> op, colors |-> colors, key |-> key_color, stride |-> stride,
     status |-> status]

\* BitMap::new(), and ImageTexture::new's empty pixel cache
BitMapInit ==
    /\ src = [ctor |-> "new", shape |-> NoShape, short |-> FALSE]
    /\ bitmap = NewBitMap
    /\ index_buffer = <<>>
    /\ mutations = 0
    /\ pixels = <<>>
    /\ pix_stride = 0
    /\ last = Last("new", <<>>, <<>>, 0, "Ok")

Running == last.status # "Panic"

Unbuilt == src.ctor = "new"

CallWithData(L, short) ==
    /\ Running /\ Unbuilt
    /\ LET data == Cut(ContiguousData(L), short)
       IN IF WithDataPanics(data, L.height, L.depth, L.stride)
          THEN /\ last' = Last("with_data", <<>>, <<>>, 0, "Panic")
               /\ UNCHANGED bitmap
          ELSE /\ last' = Last("with_data", <<>>, <<>>, 0, "Ok")
               /\ bitmap' = WithData(data, L.width, L.height, L.depth, L.stride)
    /\ src' = [ctor |-> "with_data", shape |-> L, short |-> short]
    /\ UNCHANGED <<index_buffer, mutations, pixels, pix_stride, palVars, rleVars, loadVars, appVars>>

CallWithInterleavedData(L, short) ==
    /\ Running /\ Unbuilt
    /\ LET data == Cut(InterleavedData(L), short)
       IN IF WithInterleavedDataPanics(data, L.height, L.depth, L.stride)
          THEN /\ last' = Last("with_interleaved_data", <<>>, <<>>, 0, "Panic")
               /\ UNCHANGED bitmap
          ELSE /\ last' = Last("with_interleaved_data", <<>>, <<>>, 0, "Ok")
               /\ bitmap' = WithInterleavedData(data, L.width, L.height, L.depth,
                                                L.stride)
    /\ src' = [ctor |-> "with_interleaved_data", shape |-> L, short |-> short]
    /\ UNCHANGED <<index_buffer, mutations, pixels, pix_stride, palVars, rleVars, loadVars, appVars>>

CallBuild(width, height, depth) ==
    /\ Running /\ Unbuilt
    /\ LET r == Build(width, height, depth)
       IN /\ bitmap' = r.bitmap
          /\ last' = Last("build", <<>>, <<>>, 0, r.status)
    /\ src' = [ctor |-> "build",
               shape |-> [width |-> width, height |-> height, depth |-> depth,
                          stride |-> RasSize(width), pat |-> 0],
               short |-> FALSE]
    /\ UNCHANGED <<index_buffer, mutations, pixels, pix_stride, palVars, rleVars, loadVars, appVars>>

\* the caller keeps the returned buffer and stride (ImageTexture::update);
\* on Err it keeps what it had
CallGenerateRgb32(colors, key_color) ==
    /\ Running
    /\ LET r == GenerateRgb32(bitmap, index_buffer, colors, key_color)
       IN /\ index_buffer' = r.index_buffer
          /\ pixels' = IF r.status = "Ok" THEN r.pixels ELSE pixels
          /\ pix_stride' = IF r.status = "Ok" THEN r.stride ELSE pix_stride
          /\ last' = Last("generate_rgb32", colors, key_color, bitmap.width * 4,
                          r.status)
    /\ UNCHANGED <<src, bitmap, mutations, palVars, rleVars, loadVars, appVars>>

\* the caller's buffer is written in place
CallUpdateRgb32(stride, colors, key_color) ==
    /\ Running
    /\ LET r == UpdateRgb32(bitmap, index_buffer, pixels, stride, colors, key_color)
       IN /\ index_buffer' = r.index_buffer
          /\ pixels' = r.pixels
          /\ last' = Last("update_rgb32", colors, key_color, stride, r.status)
    /\ UNCHANGED <<src, bitmap, mutations, pix_stride, palVars, rleVars, loadVars, appVars>>

\* `planes` is a public field: its owner complements the first byte of plane pp
\* (the bits of pixels 0..7 of row 0)
MutatePlane(pp) ==
    /\ Running
    /\ mutations < MaxMutations
    /\ pp < Len(bitmap.planes)
    /\ bitmap.planes[pp + 1] # <<>>
    /\ bitmap' = [bitmap EXCEPT !.planes[pp + 1][1] = 255 - @]
    /\ mutations' = mutations + 1
    /\ last' = Last("mutate_plane", <<>>, <<>>, 0, "Ok")
    /\ UNCHANGED <<src, index_buffer, pixels, pix_stride, palVars, rleVars, loadVars, appVars>>

BitMapNext ==
    \/ \E L \in Logicals, short \in BOOLEAN : CallWithData(L, short)
    \/ \E L \in Logicals, short \in BOOLEAN : CallWithInterleavedData(L, short)
    \/ \E w \in Widths, h \in Heights, d \in Depths : CallBuild(w, h, d)
    \/ \E colors \in Palettes, key_color \in KeyColors(bitmap.depth) :
           CallGenerateRgb32(colors, key_color)
    \/ \E colors \in Palettes, key_color \in KeyColors(bitmap.depth) :
           CallUpdateRgb32(pix_stride, colors, key_color)
    \/ MutatePlane(0)

\* BitMap::build on its own, over a wider range of sizes
BuildNext ==
    \E w \in 0..MaxBuildWidth, h \in 0..MaxBuildHeight, d \in Depths : CallBuild(w, h, d)

----------------------------------------------------------------------------
(* BitMap::update_rgb32 on a buffer and a stride of the caller's choice *)

\* the byte a fresh buffer of the caller is filled with: no byte of a colour
\* of the palettes (each is a nibble times 17, or an alpha of 0 or 255)
FillByte == 1

FreshBuffer(len) == [j \in 1..len |-> FillByte]

\* bitmaps of one to two columns, of a depth the colour table accepts and of
\* two it rejects
UpdateShapes ==
    {[width |-> w, height |-> h, depth |-> d, stride |-> RasSize(w), pat |-> 0] :
        w \in 1..MaxUpdateWidth, h \in 0..MaxUpdateHeight, d \in {0, 1, 2, MaxDepth + 1}}

\* BitMap::with_data has built the bitmap; the index cache is empty
UpdateInit ==
    /\ \E L \in UpdateShapes :
          /\ src = [ctor |-> "with_data", shape |-> L, short |-> FALSE]
          /\ bitmap = WithData(ContiguousData(L), L.width, L.height, L.depth, L.stride)
    /\ index_buffer = <<>>
    /\ mutations = 0
    /\ pixels = <<>>
    /\ pix_stride = 0
    /\ last = Last("with_data", <<>>, <<>>, 0, "Ok")

\* update_rgb32(&mut pixels, stride, colors, key_color) on a fresh buffer of
\* len bytes
CallUpdateRgb32Into(len, stride, colors, key_color) ==
    /\ Running
    /\ LET r == UpdateRgb32(bitmap, index_buffer, FreshBuffer(len), stride, colors,
                            key_color)
       IN /\ index_buffer' = r.index_buffer
          /\ pixels' = r.pixels
          /\ last' = Last("update_rgb32", colors, key_color, stride, r.status)
    /\ pix_stride' = stride
    /\ UNCHANGED <<src, bitmap, mutations, palVars, rleVars, loadVars, appVars>>

UpdateNext ==
    \E len \in 0..MaxBufferLen, stride \in 0..MaxCallerStride,
       key_color \in {<<>>, <<1>>} :
        CallUpdateRgb32Into(len, stride, TestPalette, key_color)

----------------------------------------------------------------------------
(* Palette::to_rgba32_table as an operation on a Palette object *)

\* colour i of the generated palette number seed, 12 bits
PaletteColor(seed, i) == ((seed + 1) * 1237 + i * 811) % 4096

\* the 32 colours of colors.rs test_palette_to_rgba32_table
GamePalette ==
    << 0, 4095, 3584, 2560, 3456, 3776, 912, 33,
       3819, 3802, 3818, 3256, 2709, 2419, 2112, 1568,
       2642, 3188, 3478, 4042, 1097, 1092, 3529, 1640,
       831, 2184, 2656, 2735, 3003, 3279, 3549, 3822 >>

PaletteInputs ==
    {[i \in 1..n |-> PaletteColor(seed, i - 1)] : n \in 0..MaxPaletteLen, seed \in {0, 1}}
    \cup {GamePalette, TestPalette}

NoTableCall == [called |-> FALSE, depth |-> 0, status |-> "Ok", error |-> "", table |-> <<>>]

PaletteIdle ==
    /\ palette = <<>>
    /\ table_call = NoTableCall

PaletteInit ==
    /\ palette \in PaletteInputs
    /\ table_call = NoTableCall

CallToRgba32Table(depth) ==
    /\ LET r == ToRgba32Table(palette, depth)
       IN table_call' = [called |-> TRUE, depth |-> depth, status |-> r.status,
                         error |-> r.error, table |-> r.table]
    /\ UNCHANGED <<palette, bmVars, rleVars, loadVars, appVars>>

PaletteNext == \E depth \in Depths : CallToRgba32Table(depth)

----------------------------------------------------------------------------
(* iff_image.rs: the ByteRun1 decoder of a compressed BODY chunk *)

\* input_data[i] as i8
AsI8(byte) == IF byte >= 128 THEN byte - 256 ELSE byte

\* for _ in 0..repeat_count { pixel_data.push(byte) }
Repeat(byte, repeat_count) == [i \in 1..repeat_count |-> byte]

\* a mutant of RepeatCount: the byte is repeated -n times
RepeatCount_NoPlusOne(n) == 0 - n

\* (-n) as usize + 1
RepeatCount(n) == (0 - n) + 1

\* (n as usize) + 1
CopySize(n) == n + 1

\* input_data.get(start..end) is None when the range leaves the buffer
GetRangeIsNone(data, start, end) == end > Len(data)

\* input_data.get(i) is None when i is not an index of the buffer
GetIsNone(data, i) == i >= Len(data)

\* control bytes: literal runs of 1, 2 and 18 bytes, no-op, repeats of 3 and 2
BodyBytes == {0, 1, 17, 128, 254}

\* the run-length example of the format description
ExampleBody == <<2, 170, 187, 204, 254, 17, 0, 153>>

RECURSIVE SeqsOfLen(_, _)
SeqsOfLen(S, n) ==
    IF n = 0 THEN {<<>>}
    ELSE {Append(q, x) : q \in SeqsOfLen(S, n - 1), x \in S}

BodyInputs ==
    UNION {SeqsOfLen(BodyBytes, n) : n \in 0..MaxBodyLen} \cup {ExampleBody}

\* a 32-bit big-endian field holding a small value
U32BE(v) == <<0, 0, v \div 256, v % 256>>

\* the file up to the BODY chunk's data: the FORM header ("FORM", size, "ILBM"),
\* a BMHD chunk of 20 bytes (16 x 1 pixels, one plane, no masking, compression
\* ByteRun1) and the BODY chunk's id and declared length
FilePrefix(body_len, declared) ==
    <<70, 79, 82, 77>> \o U32BE(4 + 28 + 8 + body_len) \o <<73, 76, 66, 77>>
    \o <<66, 77, 72, 68>> \o U32BE(20)
    \o <<0, 16, 0, 1, 0, 0, 0, 0, 1, 0, 1, 0, 0, 0, 10, 11, 0, 16, 0, 1>>
    \o <<66, 79, 68, 89>> \o U32BE(declared)

ByteRunIdle ==
    /\ input_data = <<>>
    /\ offset = 0
    /\ chunk_size = 0
    /\ body_offset = 0
    /\ pixel_data = <<>>
    /\ image_pixels = <<>>
    /\ body_status = "idle"

\* load_from_data has read the FORM header, the BMHD chunk (setting
\* `compressed`) and the BODY chunk's id and length, and enters the BODY arm:
\* the chunk's data starts at offset, and its declared length may be smaller
\* or larger than what follows
ByteRunInit ==
    /\ \E body \in BodyInputs : \E declared \in 0..(Len(body) + 1) :
          /\ input_data = FilePrefix(Len(body), declared) \o body
          /\ offset = Len(FilePrefix(Len(body), declared))
          /\ chunk_size = declared
    /\ body_offset = 0
    /\ pixel_data = <<>>
    /\ image_pixels = <<>>
    /\ body_status = "decoding"

\* an iteration of `while body_offset < chunk_size` starts
InLoop == body_status = "decoding" /\ body_offset < chunk_size

\* let n = input_data[offset + body_offset] as i8, when the index is in the buffer
ControlByte == AsI8(input_data[offset + body_offset + 1])

ControlInBuffer == offset + body_offset < Len(input_data)

\* input_data[offset + body_offset] is indexed past the buffer
ReadControlPanics ==
    /\ InLoop
    /\ ~ControlInBuffer
    /\ body_status' = "Panic"
    /\ UNCHANGED <<input_data, offset, chunk_size, body_offset, pixel_data,
                   image_pixels, bmVars, palVars, loadVars, appVars>>

\* n >= 0: copy the next n + 1 bytes
LiteralRun ==
    /\ InLoop
    /\ ControlInBuffer
    /\ ControlByte >= 0
    /\ LET next == body_offset + 1
           copy_size == CopySize(ControlByte)
       IN /\ ~GetRangeIsNone(input_data, offset + next, offset + next + copy_size)
          /\ pixel_data' = pixel_data \o
                 Slice(input_data, offset + next, offset + next + copy_size)
          /\ body_offset' = next + copy_size
    /\ UNCHANGED <<input_data, offset, chunk_size, image_pixels, body_status,
                   bmVars, palVars, loadVars, appVars>>

LiteralTruncated ==
    /\ InLoop
    /\ ControlInBuffer
    /\ ControlByte >= 0
    /\ LET next == body_offset + 1
       IN /\ GetRangeIsNone(input_data, offset + next,
                            offset + next + CopySize(ControlByte))
          /\ body_offset' = next
    /\ body_status' = "Err"
    /\ UNCHANGED <<input_data, offset, chunk_size, pixel_data, image_pixels,
                   bmVars, palVars, loadVars, appVars>>

\* -127 <= n < 0: the next byte, (-n) + 1 times
RepeatRun ==
    /\ InLoop
    /\ ControlInBuffer
    /\ ControlByte < 0 /\ ControlByte >= -127
    /\ LET next == body_offset + 1
       IN /\ ~GetIsNone(input_data, offset + next)
          /\ pixel_data' = pixel_data \o
                 Repeat(input_data[offset + next + 1], RepeatCount(ControlByte))
          /\ body_offset' = next + 1
    /\ UNCHANGED <<input_data, offset, chunk_size, image_pixels, body_status,
                   bmVars, palVars, loadVars, appVars>>

RepeatTruncated ==
    /\ InLoop
    /\ ControlInBuffer
    /\ ControlByte < 0 /\ ControlByte >= -127
    /\ GetIsNone(input_data, offset + body_offset + 1)
    /\ body_offset' = body_offset + 1
    /\ body_status' = "Err"
    /\ UNCHANGED <<input_data, offset, chunk_size, pixel_data, image_pixels,
                   bmVars, palVars, loadVars, appVars>>

\* n == -128
NoOp ==
    /\ InLoop
    /\ ControlInBuffer
    /\ ControlByte < -127
    /\ body_offset' = body_offset + 1
    /\ UNCHANGED <<input_data, offset, chunk_size, pixel_data, image_pixels,
                   body_status, bmVars, palVars, loadVars, appVars>>

\* the loop ends: image.pixels = pixel_data; offset += chunk_size
ByteRunDone ==
    /\ body_status = "decoding"
    /\ body_offset >= chunk_size
    /\ image_pixels' = pixel_data
    /\ offset' = offset + chunk_size
    /\ body_status' = "Ok"
    /\ UNCHANGED <<input_data, chunk_size, body_offset, pixel_data, bmVars, palVars, loadVars, appVars>>

ByteRunNext ==
    \/ ReadControlPanics
    \/ LiteralRun
    \/ LiteralTruncated
    \/ RepeatRun
    \/ RepeatTruncated
    \/ NoOp
    \/ ByteRunDone

----------------------------------------------------------------------------
(* byteops.rs: reads at a caller-held offset.  A read returns its value and *)
(* the advanced offset, or panics on an index or slice out of range.        *)

ReadOk(value, new_offset) == [status |-> "Ok", value |-> value, offset |-> new_offset]

ReadPanic(at) == [status |-> "Panic", value |-> <<>>, offset |-> at]

\* &data[*offset .. *offset + n] is out of range
SlicePanics(data, at, n) == at + n > Len(data)

\* u16::from_be_bytes
U16FromBe(vs) == vs[1] * 256 + vs[2]

\* i16::from_be_bytes
I16FromBe(vs) == IF vs[1] >= 128 THEN U16FromBe(vs) - 65536 ELSE U16FromBe(vs)

\* u32::from_be_bytes, as the limbs <<high 16 bits, low 16 bits>>
U32FromBe(vs) == <<vs[1] * 256 + vs[2], vs[3] * 256 + vs[4]>>

\* i32::from_be_bytes
I32FromBe(vs) ==
    ((IF vs[1] >= 128 THEN vs[1] - 256 ELSE vs[1]) * 65536 * 256)
    + vs[2] * 65536 + vs[3] * 256 + vs[4]

read_u32(data, at) ==
    IF SlicePanics(data, at, 4) THEN ReadPanic(at)
    ELSE ReadOk(U32FromBe(Slice(data, at, at + 4)), at + 4)

read_i32(data, at) ==
    IF SlicePanics(data, at, 4) THEN ReadPanic(at)
    ELSE ReadOk(I32FromBe(Slice(data, at, at + 4)), at + 4)

read_u16(data, at) ==
    IF SlicePanics(data, at, 2) THEN ReadPanic(at)
    ELSE ReadOk(U16FromBe(Slice(data, at, at + 2)), at + 2)

read_i16(data, at) ==
    IF SlicePanics(data, at, 2) THEN ReadPanic(at)
    ELSE ReadOk(I16FromBe(Slice(data, at, at + 2)), at + 2)

\* data[*offset]
read_u8(data, at) ==
    IF at >= Len(data) THEN ReadPanic(at)
    ELSE ReadOk(data[at + 1], at + 1)

\* while data[str_end] != 0 { str_end += 1 }: the index the loop stops at, or
\* -1 when data[str_end] leaves the buffer first
RECURSIVE StrEnd(_, _)
StrEnd(data, str_end) ==
    IF str_end >= Len(data) THEN -1
    ELSE IF data[str_end + 1] = 0 THEN str_end
    ELSE StrEnd(data, str_end + 1)

\* a UTF-8 continuation byte at index i (1-based) of bytes
IsCont(bytes, i) == i <= Len(bytes) /\ bytes[i] \in 128..191

\* std::str::from_utf8(bytes).is_ok(), from index i (1-based) on
RECURSIVE Utf8From(_, _)
Utf8From(bytes, i) ==
    IF i > Len(bytes) THEN TRUE
    ELSE LET b == bytes[i]
             second(lo, hi) == i + 1 <= Len(bytes) /\ bytes[i + 1] \in lo..hi
         IN IF b < 128 THEN Utf8From(bytes, i + 1)
            ELSE IF b \in 194..223
            THEN IsCont(bytes, i + 1) /\ Utf8From(bytes, i + 2)
            ELSE IF b \in 224..239
            THEN /\ second(IF b = 224 THEN 160 ELSE 128, IF b = 237 THEN 159 ELSE 191)
                 /\ IsCont(bytes, i + 2)
                 /\ Utf8From(bytes, i + 3)
            ELSE IF b \in 240..244
            THEN /\ second(IF b = 240 THEN 144 ELSE 128, IF b = 244 THEN 143 ELSE 191)
                 /\ IsCont(bytes, i + 2)
                 /\ IsCont(bytes, i + 3)
                 /\ Utf8From(bytes, i + 4)
            ELSE FALSE

\* let mut str_end = *offset + 1
FirstStrEnd(at) == at + 1

\* *offset += str_end - str_start
StringAdvance(str_start, str_end) == str_end - str_start

\* a String is kept as its bytes
read_string(data, at) ==
    LET str_start == at
        str_end == StrEnd(data, FirstStrEnd(at))
    IN IF str_end < 0 THEN ReadPanic(at)
       ELSE IF str_end - str_start = 1
       THEN ReadOk(<<>>, at + StringAdvance(str_start, str_end))
       ELSE IF ~Utf8From(Slice(data, str_start, str_end), 1) THEN ReadPanic(at)
       ELSE ReadOk(Slice(data, str_start, str_end),
                   at + StringAdvance(str_start, str_end))

\* the bytes of the enumerated buffers: NUL, 'A', '/', and 0xFF, which no
\* UTF-8 text contains
CursorBytes == {0, 65, 47, 255}

CursorInputs == UNION {SeqsOfLen(CursorBytes, n) : n \in 0..MaxCursorLen}

NoRead == [op |-> "none", at |-> 0, status |-> "Ok", value |-> <<>>]

CursorIdle ==
    /\ cursor_data = <<>>
    /\ cursor_offset = 0
    /\ cursor_last = NoRead

\* a caller holds a buffer and an offset into it
CursorInit ==
    /\ cursor_data \in CursorInputs
    /\ cursor_offset \in 0..Len(cursor_data)
    /\ cursor_last = NoRead

\* one call of a read: the offset is advanced when the read returns
CallRead(op, result) ==
    /\ cursor_last.status # "Panic"
    /\ cursor_last' = [op |-> op, at |-> cursor_offset, status |-> result.status,
                       value |-> result.value]
    /\ cursor_offset' = result.offset
    /\ UNCHANGED <<cursor_data, decodeVars, appVars, iffVars, hunkVars, fontVars>>

CallReadU8 == CallRead("read_u8", read_u8(cursor_data, cursor_offset))

CallReadU16 == CallRead("read_u16", read_u16(cursor_data, cursor_offset))

CallReadI16 == CallRead("read_i16", read_i16(cursor_data, cursor_offset))

CallReadU32 == CallRead("read_u32", read_u32(cursor_data, cursor_offset))

CallReadI32 == CallRead("read_i32", read_i32(cursor_data, cursor_offset))

CallReadString == CallRead("read_string", read_string(cursor_data, cursor_offset))

CursorNext ==
    \/ CallReadU8
    \/ CallReadU16
    \/ CallReadI16
    \/ CallReadU32
    \/ CallReadI32
    \/ CallReadString

----------------------------------------------------------------------------
(* iff_image.rs: IffImage::load_from_data, the FORM header and the chunk    *)
(* loop.  One action is one iteration of `while offset < input_data.len()`. *)

\* `as usize` of a u32 kept as limbs; the enumerated values are below 2^31
AsUsize(v) == v[1] * 65536 + v[2]

FOURCC_FORM == <<17999, 21069>>
FOURCC_ILBM == <<18764, 16973>>
FOURCC_BMHD == <<16973, 18500>>
FOURCC_CMAP == <<17229, 16720>>
FOURCC_BODY == <<16975, 17497>>

MASK_HAS_TRANSPARENCY == 2

COMPRESSION_NONE == 0
COMPRESSION_BYTE_RUN1 == 1

\* RGB4::from((u8, u8, u8))
RGB4FromBytes(r, g, b) == (r \div 16) * 256 + (g \div 16) * 16 + (b \div 16)

NewIffImage ==
    [width |-> 0, height |-> 0, bitplanes |-> 0, colormap |-> <<>>,
     transparent_color |-> <<>>, pixels |-> <<>>]

\* the ByteRun1 loop of the BODY arm from body_offset on, as one computation:
\* what it leaves in pixel_data, or the error or panic that ends it
RECURSIVE ByteRunLoop(_, _, _, _, _)
ByteRunLoop(data, at, size, body_off, decoded) ==
    IF body_off >= size THEN [status |-> "Ok", pixels |-> decoded]
    ELSE IF at + body_off >= Len(data) THEN [status |-> "Panic", pixels |-> <<>>]
    ELSE LET n == AsI8(data[at + body_off + 1])
             next == body_off + 1
         IN IF n >= 0
            THEN IF GetRangeIsNone(data, at + next, at + next + CopySize(n))
                 THEN [status |-> "Err", pixels |-> <<>>]
                 ELSE ByteRunLoop(data, at, size, next + CopySize(n),
                          decoded \o Slice(data, at + next, at + next + CopySize(n)))
            ELSE IF n >= -127
            THEN IF GetIsNone(data, at + next)
                 THEN [status |-> "Err", pixels |-> <<>>]
                 ELSE ByteRunLoop(data, at, size, next + 1,
                          decoded \o Repeat(data[at + next + 1], RepeatCount(n)))
            ELSE ByteRunLoop(data, at, size, next, decoded)

\* the BMHD arm reads width and height and then indexes the bytes at start + 8,
\* start + 9 and start + 10
BmhdPanics(data, start) == start + 10 >= Len(data)

\* the colour-map loop: chunk_size / 3 colours, offset += 3 for each
CmapCount(size) == size \div 3

CmapPanics(data, start, size) == CmapCount(size) > 0 /\ start + 3 * CmapCount(size) > Len(data)

CmapColors(data, start, size) ==
    [i \in 1..CmapCount(size) |->
        RGB4FromBytes(data[start + 3 * (i - 1) + 1], data[start + 3 * (i - 1) + 2],
                      data[start + 3 * (i - 1) + 3])]

\* if offset % 2 != 0 { offset += 1 }
PadEven(at) == IF at % 2 # 0 THEN at + 1 ELSE at

NoChunk == [id |-> <<0, 0>>, start |-> 0, size |-> 0]

\* the four bytes of a u32 kept as limbs
LimbBytes(v) == <<v[1] \div 256, v[1] % 256, v[2] \div 256, v[2] % 256>>

\* an id no arm of the chunk loop recognizes ("ANNO")
FOURCC_ANNO == <<16718, 20047>>

\* the chunks of the enumerated files: header chunks with and without a
\* transparent colour and with compression 0, 1 and 2, and colour maps, bodies
\* and unrecognized chunks of every length up to MaxChunkLen; a body is one
\* literal run that ends with the chunk, or one that needs a byte more
ChunkSpecs ==
    {[kind |-> "BMHD", len |-> 20, masking |-> m[1], compression |-> m[2], over |-> FALSE] :
        m \in {<<0, 0>>, <<0, 1>>, <<0, 2>>, <<2, 1>>}}
    \cup {[kind |-> k, len |-> n, masking |-> 0, compression |-> 0, over |-> FALSE] :
              k \in {"CMAP", "BODY", "ANNO"}, n \in 0..MaxChunkLen}
    \cup {[kind |-> "BODY", len |-> n, masking |-> 0, compression |-> 0, over |-> TRUE] :
              n \in 1..MaxChunkLen}

ChunkIdOf(c) ==
    IF c.kind = "BMHD" THEN FOURCC_BMHD
    ELSE IF c.kind = "CMAP" THEN FOURCC_CMAP
    ELSE IF c.kind = "BODY" THEN FOURCC_BODY
    ELSE FOURCC_ANNO

ChunkContent(c) ==
    IF c.kind = "BMHD"
    THEN <<0, 16, 0, 1, 0, 0, 0, 0, 1, c.masking, c.compression, 0, 0, 2, 10, 11,
           0, 16, 0, 1>>
    ELSE IF c.kind = "CMAP" THEN [i \in 1..c.len |-> (i * 48 + 16) % 256]
    ELSE IF c.kind = "ANNO" THEN [i \in 1..c.len |-> 64 + i]
    ELSE IF c.len = 0 THEN <<>>
    ELSE IF c.over THEN <<c.len - 1>> \o [i \in 1..(c.len - 1) |-> 16 + i]
    ELSE IF c.len = 1 THEN <<128>>
    ELSE <<c.len - 2>> \o [i \in 1..(c.len - 1) |-> 16 + i]

\* a chunk as a writer lays it out: id, length, content, and a pad byte after
\* a content of odd length
ChunkBytes(c) ==
    LimbBytes(ChunkIdOf(c)) \o U32BE(c.len) \o ChunkContent(c)
    \o (IF c.len % 2 = 1 THEN <<0>> ELSE <<>>)

RECURSIVE ChunksBytes(_)
ChunksBytes(chunks) ==
    IF chunks = <<>> THEN <<>>
    ELSE ChunkBytes(Head(chunks)) \o ChunksBytes(Tail(chunks))

\* a FORM ILBM file of the given chunks, with its last `cut` bytes missing
IffFile(chunks, cut) ==
    LET body == ChunksBytes(chunks)
        file == LimbBytes(FOURCC_FORM) \o U32BE(4 + Len(body)) \o LimbBytes(FOURCC_ILBM)
                \o body
    IN SubSeq(file, 1, Len(file) - cut)

IffInputs ==
    {IffFile(chunks, cut) :
        chunks \in UNION {SeqsOfLen(ChunkSpecs, n) : n \in 0..MaxChunks}, cut \in {0, 1}}
    \cup {<<>>, LimbBytes(FOURCC_ANNO) \o U32BE(4) \o LimbBytes(FOURCC_ILBM),
          LimbBytes(FOURCC_FORM) \o U32BE(4) \o LimbBytes(FOURCC_ANNO)}

\* load_from_data is called on a file
IffInit ==
    /\ iff_data \in IffInputs
    /\ iff_offset = 0
    /\ iff_chunk = NoChunk
    /\ iff_compressed = FALSE
    /\ iff_image = NewIffImage
    /\ iff_status = "start"


IffIdle ==
    /\ iff_data = <<>>
    /\ iff_offset = 0
    /\ iff_chunk = NoChunk
    /\ iff_compressed = FALSE
    /\ iff_image = NewIffImage
    /\ iff_status = "idle"

\* the chunk header at the current offset
ChunkId == read_u32(iff_data, iff_offset)
ChunkSize == read_u32(iff_data, iff_offset + 4)
ChunkStart == iff_offset + 8

InChunkLoop == iff_status = "chunks" /\ iff_offset < Len(iff_data)

ChunkIs(id) ==
    /\ InChunkLoop
    /\ ChunkId.status = "Ok" /\ ChunkSize.status = "Ok"
    /\ ChunkId.value = id

ThisChunk == [id |-> ChunkId.value, start |-> ChunkStart, size |-> AsUsize(ChunkSize.value)]

\* the FORM header: "FORM", a size that is not looked at, "ILBM"
ReadFormHeader ==
    /\ iff_status = "start"
    /\ LET form_id == read_u32(iff_data, 0)
           form_size == read_u32(iff_data, 4)
           form_type == read_u32(iff_data, 8)
       IN IF form_id.status = "Panic" THEN iff_status' = "Panic" /\ UNCHANGED iff_offset
          ELSE IF form_id.value # FOURCC_FORM THEN iff_status' = "Err" /\ iff_offset' = 4
          ELSE IF form_size.status = "Panic" \/ form_type.status = "Panic"
          THEN iff_status' = "Panic" /\ UNCHANGED iff_offset
          ELSE IF form_type.value # FOURCC_ILBM THEN iff_status' = "Err" /\ iff_offset' = 12
          ELSE iff_status' = "chunks" /\ iff_offset' = 12
    /\ iff_image' = NewIffImage
    /\ iff_compressed' = FALSE
    /\ UNCHANGED <<iff_data, iff_chunk, decodeVars, appVars, rdVars, hunkVars, fontVars>>

\* read_u32 of the chunk id or of the chunk length leaves the buffer
ChunkHeaderPanics ==
    /\ InChunkLoop
    /\ ChunkId.status = "Panic" \/ ChunkSize.status = "Panic"
    /\ iff_status' = "Panic"
    /\ UNCHANGED <<iff_data, iff_offset, iff_chunk, iff_compressed, iff_image,
                   decodeVars, appVars, rdVars, hunkVars, fontVars>>

ChunkBMHD ==
    /\ ChunkIs(FOURCC_BMHD)
    /\ iff_chunk' = ThisChunk
    /\ IF BmhdPanics(iff_data, ChunkStart)
       THEN /\ iff_status' = "Panic"
            /\ UNCHANGED <<iff_offset, iff_compressed, iff_image>>
       ELSE LET compression == iff_data[ChunkStart + 10 + 1]
                masking == iff_data[ChunkStart + 9 + 1]
                \* header_offset is start + 11 when the transparent colour is read
                transparent == read_u16(iff_data, ChunkStart + 11)
            IN IF compression \notin {COMPRESSION_NONE, COMPRESSION_BYTE_RUN1}
               THEN /\ iff_status' = "Err"
                    /\ UNCHANGED <<iff_offset, iff_compressed, iff_image>>
               ELSE IF masking = MASK_HAS_TRANSPARENCY /\ transparent.status = "Panic"
               THEN /\ iff_status' = "Panic"
                    /\ UNCHANGED <<iff_offset, iff_compressed, iff_image>>
               ELSE /\ iff_compressed' =
                          (iff_compressed \/ compression = COMPRESSION_BYTE_RUN1)
                    /\ iff_image' =
                          [iff_image EXCEPT
                              !.width = read_u16(iff_data, ChunkStart).value,
                              !.height = read_u16(iff_data, ChunkStart + 2).value,
                              !.bitplanes = iff_data[ChunkStart + 8 + 1],
                              !.transparent_color =
                                  IF masking = MASK_HAS_TRANSPARENCY
                                  THEN <<transparent.value>>
                                  ELSE <<>>]
                    /\ iff_offset' = PadEven(ChunkStart + ThisChunk.size)
                    /\ UNCHANGED iff_status
    /\ UNCHANGED <<iff_data, decodeVars, appVars, rdVars, hunkVars, fontVars>>

ChunkCMAP ==
    /\ ChunkIs(FOURCC_CMAP)
    /\ iff_chunk' = ThisChunk
    /\ IF CmapPanics(iff_data, ChunkStart, ThisChunk.size)
       THEN /\ iff_status' = "Panic"
            /\ UNCHANGED <<iff_offset, iff_image>>
       ELSE /\ iff_image' = [iff_image EXCEPT !.colormap =
                                <<CmapColors(iff_data, ChunkStart, ThisChunk.size)>>]
            /\ iff_offset' = PadEven(ChunkStart + 3 * CmapCount(ThisChunk.size))
            /\ UNCHANGED iff_status
    /\ UNCHANGED <<iff_data, iff_compressed, decodeVars, appVars, rdVars, hunkVars, fontVars>>

\* BODY, uncompressed: the arm ends in `continue`, before the padding step
ChunkBodyRaw ==
    /\ ChunkIs(FOURCC_BODY)
    /\ ~iff_compressed
    /\ iff_chunk' = ThisChunk
    /\ IF GetRangeIsNone(iff_data, ChunkStart, ChunkStart + ThisChunk.size)
       THEN /\ iff_status' = "Err"
            /\ UNCHANGED <<iff_offset, iff_image>>
       ELSE /\ iff_image' = [iff_image EXCEPT !.pixels =
                                Slice(iff_data, ChunkStart, ChunkStart + ThisChunk.size)]
            /\ iff_offset' = ChunkStart + ThisChunk.size
            /\ UNCHANGED iff_status
    /\ UNCHANGED <<iff_data, iff_compressed, decodeVars, appVars, rdVars, hunkVars, fontVars>>

\* BODY, compressed with ByteRun1
ChunkBodyByteRun ==
    /\ ChunkIs(FOURCC_BODY)
    /\ iff_compressed
    /\ iff_chunk' = ThisChunk
    /\ LET run == ByteRunLoop(iff_data, ChunkStart, ThisChunk.size, 0, <<>>)
       IN IF run.status # "Ok"
          THEN /\ iff_status' = run.status
               /\ UNCHANGED <<iff_offset, iff_image>>
          ELSE /\ iff_image' = [iff_image EXCEPT !.pixels = run.pixels]
               /\ iff_offset' = PadEven(ChunkStart + ThisChunk.size)
               /\ UNCHANGED iff_status
    /\ UNCHANGED <<iff_data, iff_compressed, decodeVars, appVars, rdVars, hunkVars, fontVars>>

\* any other chunk id: skipped
ChunkUnknown ==
    /\ InChunkLoop
    /\ ChunkId.status = "Ok" /\ ChunkSize.status = "Ok"
    /\ ChunkId.value \notin {FOURCC_BMHD, FOURCC_CMAP, FOURCC_BODY}
    /\ iff_chunk' = ThisChunk
    /\ iff_offset' = PadEven(ChunkStart + ThisChunk.size)
    /\ UNCHANGED <<iff_data, iff_compressed, iff_image, iff_status, decodeVars, appVars, rdVars, hunkVars, fontVars>>

\* offset >= input_data.len(): Ok(image)
ChunkLoopEnd ==
    /\ iff_status = "chunks"
    /\ iff_offset >= Len(iff_data)
    /\ iff_status' = "Ok"
    /\ UNCHANGED <<iff_data, iff_offset, iff_chunk, iff_compressed, iff_image,
                   decodeVars, appVars, rdVars, hunkVars, fontVars>>

IffNext ==
    \/ ReadFormHeader
    \/ ChunkHeaderPanics
    \/ ChunkBMHD
    \/ ChunkCMAP
    \/ ChunkBodyRaw
    \/ ChunkBodyByteRun
    \/ ChunkUnknown
    \/ ChunkLoopEnd

----------------------------------------------------------------------------
(* hunk.rs: load_hunkfile.  The header is one action, each block of the     *)
(* 'hunkloop one action.  The function has no error return: every check is  *)
(* an assert_eq!, an index or a slice, and fails by panicking.              *)

ALLOC_FLAG_MASK == <<16383, 65535>>
MAGIC_COOKIE == <<0, 1011>>
HUNK_CODE == <<0, 1001>>
HUNK_DATA == <<0, 1002>>
HUNK_BSS == <<0, 1003>>
HUNK_RELOC32 == <<0, 1004>>
HUNK_END == <<0, 1010>>

\* read_u32(..) & ALLOC_FLAG_MASK
MaskFlags(v) == <<v[1] % (ALLOC_FLAG_MASK[1] + 1), v[2]>>

\* size *= 4 on a u32 whose top two bits are clear
TimesFour(v) == <<v[1] * 4 + (v[2] * 4) \div 65536, (v[2] * 4) % 65536>>

\* one entry of hunk_sizes
SizeEntry(raw) == AsUsize(TimesFour(MaskFlags(raw)))

\* `for _index in [hunk_count]` iterates over the one element of the array,
\* whatever hunk_count is
SizeEntriesRead == 1

NewHunkData ==
    [header |-> [table_size |-> <<0, 0>>, first_hunk |-> <<0, 0>>,
                 last_hunk |-> <<0, 0>>, hunk_sizes |-> <<>>],
     hunks |-> <<>>]

\* hunk.header.last_hunk - hunk.header.first_hunk + 1 overflows u32
HunkCountOverflows(first_hunk, last_hunk) == AsUsize(last_hunk) < AsUsize(first_hunk)

\* a variant of RelocOffsetsLen: the offsets are taken as 16-bit words
RelocOffsetsLen_Short(count) == 2 * count

\* the bytes of the `count` offsets of a relocation run
RelocOffsetsLen(count) == 4 * count

\* the offsets of one run, each used to read a u32 of the target segment: some
\* read leaves the file or the segment
RelocRunPanics(file, at, count, hunk_data) ==
    \E i \in 0..(count - 1) :
        \/ read_u32(file, at + 4 * i).status = "Panic"
        \/ read_u32(hunk_data, AsUsize(read_u32(file, at + 4 * i).value)).status = "Panic"

\* 'reloloop from offset `at`: the offset after the count of 0 that ends it,
\* or a panic
RECURSIVE RelocLoop(_, _, _)
RelocLoop(file, at, hunks) ==
    LET count == read_u32(file, at)
        hunk_num == read_u32(file, at + 4)
    IN IF count.status = "Panic" THEN [status |-> "Panic", offset |-> at]
       ELSE IF AsUsize(count.value) = 0 THEN [status |-> "Ok", offset |-> at + 4]
       ELSE IF hunk_num.status = "Panic" THEN [status |-> "Panic", offset |-> at]
       ELSE IF AsUsize(hunk_num.value) >= Len(hunks) THEN [status |-> "Panic", offset |-> at]
       ELSE IF RelocRunPanics(file, at + 8, AsUsize(count.value),
                              hunks[AsUsize(hunk_num.value) + 1].data)
       THEN [status |-> "Panic", offset |-> at]
       ELSE RelocLoop(file, at + 8 + RelocOffsetsLen(AsUsize(count.value)), hunks)

NoTag == [id |-> <<0, 0>>, at |-> 0]

\* the headers of the enumerated files: cookie, reserved word, first and last
\* slot, and the size entries (in words) a writer puts after them, one per
\* slot; table_size is last_hunk + 1, and first_hunk <= last_hunk
HunkHeaders ==
    {[cookie |-> MAGIC_COOKIE, strings |-> 0, first |-> h[1], last |-> h[2], sizes |-> h[3]] :
        h \in {<<0, 0, << <<0, 2>> >> >>, <<0, 0, << <<49152, 2>> >> >>,
               <<0, 0, << <<0, 1>> >> >>, <<0, 1, << <<0, 2>>, <<0, 2>> >> >>,
               <<0, 1, << <<0, 2>>, <<0, 1>> >> >>, <<1, 1, << <<0, 2>> >> >>}}
    \cup {[cookie |-> HUNK_END, strings |-> 0, first |-> 0, last |-> 0, sizes |-> << <<0, 2>> >>],
          [cookie |-> MAGIC_COOKIE, strings |-> 1, first |-> 0, last |-> 0, sizes |-> << <<0, 2>> >>]}

\* a relocation run: target segment and offsets
RelocRun(hunk_num, offsets) == [hunk_num |-> hunk_num, offsets |-> offsets]

\* the blocks of the enumerated files: code segments of 0..MaxSegWords words,
\* a data segment, relocation blocks of zero, one and two runs (also with a
\* target or an offset that does not exist), a BSS block, and the end tag
HunkBlocks ==
    {[kind |-> "seg", id |-> HUNK_CODE, words |-> w, runs |-> <<>>] : w \in 0..MaxSegWords}
    \cup {[kind |-> "seg", id |-> HUNK_DATA, words |-> 2, runs |-> <<>>]}
    \cup {[kind |-> "reloc", id |-> HUNK_RELOC32, words |-> 0, runs |-> r] :
              r \in {<<>>, <<RelocRun(0, <<0>>)>>,
                     <<RelocRun(0, <<0>>), RelocRun(0, <<0, 0>>)>>,
                     <<RelocRun(1, <<0>>)>>, <<RelocRun(0, <<4>>)>>}}
    \cup {[kind |-> "bss", id |-> HUNK_BSS, words |-> 1, runs |-> <<>>],
          [kind |-> "end", id |-> HUNK_END, words |-> 0, runs |-> <<>>]}

RECURSIVE WordsBytes(_)
WordsBytes(ws) ==
    IF ws = <<>> THEN <<>> ELSE U32BE(Head(ws)) \o WordsBytes(Tail(ws))

RECURSIVE RunsBytes(_)
RunsBytes(runs) ==
    IF runs = <<>> THEN U32BE(0)
    ELSE U32BE(Len(Head(runs).offsets)) \o U32BE(Head(runs).hunk_num)
         \o WordsBytes(Head(runs).offsets) \o RunsBytes(Tail(runs))

\* a block as a writer lays it out
BlockBytes(b) ==
    LimbBytes(b.id) \o
    (IF b.kind = "seg"
     THEN U32BE(b.words) \o [i \in 1..(4 * b.words) |-> (i * 7 + 3) % 256]
     ELSE IF b.kind = "reloc" THEN RunsBytes(b.runs)
     ELSE IF b.kind = "bss" THEN U32BE(b.words)
     ELSE <<>>)

RECURSIVE BlocksBytes(_)
BlocksBytes(blocks) ==
    IF blocks = <<>> THEN <<>>
    ELSE BlockBytes(Head(blocks)) \o BlocksBytes(Tail(blocks))

RECURSIVE LimbsBytes(_)
LimbsBytes(vs) ==
    IF vs = <<>> THEN <<>> ELSE LimbBytes(Head(vs)) \o LimbsBytes(Tail(vs))

HunkFileBytes(h, blocks) ==
    LimbBytes(h.cookie) \o U32BE(h.strings) \o U32BE(h.last + 1) \o U32BE(h.first)
    \o U32BE(h.last) \o LimbsBytes(h.sizes) \o BlocksBytes(blocks)

HunkInputs ==
    {HunkFileBytes(h, blocks) :
        h \in HunkHeaders,
        blocks \in UNION {SeqsOfLen(HunkBlocks, n) : n \in 0..MaxBlocks}}

\* load_hunkfile has read the file into file_data
HunkInit ==
    /\ hunk_file \in HunkInputs
    /\ hunk_offset = 0
    /\ hunk = NewHunkData
    /\ hunk_index = 0
    /\ hunk_tag = NoTag
    /\ hunk_status = "start"

HunkIdle ==
    /\ hunk_file = <<>>
    /\ hunk_offset = 0
    /\ hunk = NewHunkData
    /\ hunk_index = 0
    /\ hunk_tag = NoTag
    /\ hunk_status = "idle"

\* the header: cookie, reserved word, table size, first and last slot, sizes
ReadHunkHeader ==
    /\ hunk_status = "start"
    /\ LET cookie == read_u32(hunk_file, 0)
           strings == read_u32(hunk_file, 4)
           table_size == read_u32(hunk_file, 8)
           first_hunk == read_u32(hunk_file, 12)
           last_hunk == read_u32(hunk_file, 16)
           size == read_u32(hunk_file, 20)
           fails(checked) ==
               \/ cookie.status = "Panic" \/ cookie.value # MAGIC_COOKIE
               \/ strings.status = "Panic" \/ AsUsize(strings.value) # 0
               \/ table_size.status = "Panic" \/ first_hunk.status = "Panic"
               \/ last_hunk.status = "Panic"
               \/ checked /\ HunkCountOverflows(first_hunk.value, last_hunk.value)
               \/ size.status = "Panic"
       IN \E checked \in BOOLEAN :
             \* the build's overflow checks are on (debug) or off (release)
             IF fails(checked)
             THEN /\ hunk_status' = "Panic"
                  /\ UNCHANGED <<hunk_offset, hunk, hunk_index>>
             ELSE /\ hunk' = [hunk EXCEPT
                                 !.header.table_size = table_size.value,
                                 !.header.first_hunk = first_hunk.value,
                                 !.header.last_hunk = last_hunk.value,
                                 !.header.hunk_sizes =
                                     [i \in 1..SizeEntriesRead |-> SizeEntry(size.value)]]
                  /\ hunk_offset' = 20 + 4 * SizeEntriesRead
                  /\ hunk_index' = AsUsize(first_hunk.value)
                  /\ hunk_status' = "tags"
    /\ UNCHANGED <<hunk_file, hunk_tag, decodeVars, appVars, rdVars, iffVars, fontVars>>

InTagLoop == hunk_status = "tags"

TagId == read_u32(hunk_file, hunk_offset)

TagIs(ids) == InTagLoop /\ TagId.status = "Ok" /\ TagId.value \in ids

ThisTag == [id |-> TagId.value, at |-> hunk_offset]

\* read_u32 of the type tag leaves the file
TagReadPanics ==
    /\ InTagLoop
    /\ TagId.status = "Panic"
    /\ hunk_status' = "Panic"
    /\ UNCHANGED <<hunk_file, hunk_offset, hunk, hunk_index, hunk_tag,
                   decodeVars, appVars, rdVars, iffVars, fontVars>>

\* HUNK_CODE or HUNK_DATA
TagSegment ==
    /\ TagIs({HUNK_CODE, HUNK_DATA})
    /\ hunk_tag' = ThisTag
    /\ LET declared == read_u32(hunk_file, hunk_offset + 4)
           size == AsUsize(declared.value) * 4
           start == hunk_offset + 8
           panics ==
               \/ hunk_index >= Len(hunk.header.hunk_sizes)
               \/ declared.status = "Panic"
               \/ hunk.header.hunk_sizes[hunk_index + 1] # size
               \/ start > start + size - 4
               \/ start + size - 4 > Len(hunk_file)
       IN IF panics
          THEN /\ hunk_status' = "Panic"
               /\ UNCHANGED <<hunk_offset, hunk, hunk_index>>
          ELSE /\ hunk' = [hunk EXCEPT !.hunks =
                              Append(@, [hunk_id |-> TagId.value, hunk_size |-> size,
                                         data |-> Slice(hunk_file, start, start + size - 4)])]
               /\ hunk_offset' = start + size
               /\ hunk_index' = hunk_index + 1
               /\ UNCHANGED hunk_status
    /\ UNCHANGED <<hunk_file, decodeVars, appVars, rdVars, iffVars, fontVars>>

\* HUNK_RELOC32: the values at the offsets are read and dropped
TagReloc ==
    /\ TagIs({HUNK_RELOC32})
    /\ hunk_tag' = ThisTag
    /\ LET relo == RelocLoop(hunk_file, hunk_offset + 4, hunk.hunks)
       IN IF relo.status = "Panic"
          THEN hunk_status' = "Panic" /\ UNCHANGED hunk_offset
          ELSE hunk_offset' = relo.offset /\ UNCHANGED hunk_status
    /\ UNCHANGED <<hunk_file, hunk, hunk_index, decodeVars, appVars, rdVars, iffVars, fontVars>>

\* HUNK_END: Ok(hunk)
TagEnd ==
    /\ TagIs({HUNK_END})
    /\ hunk_tag' = ThisTag
    /\ hunk_offset' = hunk_offset + 4
    /\ hunk_status' = "Ok"
    /\ UNCHANGED <<hunk_file, hunk, hunk_index, decodeVars, appVars, rdVars, iffVars, fontVars>>

\* any other tag: no arm of the if chain takes it, and the loop goes on with
\* the next word
TagOther ==
    /\ InTagLoop
    /\ TagId.status = "Ok"
    /\ TagId.value \notin {HUNK_CODE, HUNK_DATA, HUNK_RELOC32, HUNK_END}
    /\ hunk_tag' = ThisTag
    /\ hunk_offset' = hunk_offset + 4
    /\ UNCHANGED <<hunk_file, hunk, hunk_index, hunk_status, decodeVars, appVars, rdVars, iffVars, fontVars>>

HunkNext ==
    \/ ReadHunkHeader
    \/ TagReadPanics
    \/ TagSegment
    \/ TagReloc
    \/ TagEnd
    \/ TagOther

----------------------------------------------------------------------------
(* font.rs: load_font.  The header of the payload is one action, each row   *)
(* of the unpacking loop one action, each glyph of the table loop one.      *)
(* A usize at or above 2^63 (a negative i16 or i32 cast with `as usize`, a  *)
(* wrapped difference) is kept as the negative integer it is congruent to   *)
(* modulo 2^64: sums and products of such values are the wrapped sums and   *)
(* products.  An arithmetic overflow panics in a build with overflow checks *)
(* and wraps in a build without: `checked` is the build.                    *)

\* NT_FONT, the node type both list nodes must carry
NT_FONT == 12

\* the DiskFontHeader file id
DFH_ID == 3968

\* the offset after the last field of the header is read
FONT_HEADER_LEN == 110

\* a < b on usize
UsizeLess(a, b) == IF (a >= 0) = (b >= 0) THEN a < b ELSE b < 0

\* a + b overflows usize
UsizeAddOverflows(a, b) == (a < 0 /\ b < 0) \/ ((a < 0 \/ b < 0) /\ a + b >= 0)

\* a * b overflows usize
UsizeMulOverflows(a, b) == a # 0 /\ b # 0 /\ (a < 0 \/ b < 0) /\ a # 1 /\ b # 1

\* DiskFont::new()
NewDiskFont ==
    [name |-> <<>>, y_size |-> 0, x_size |-> 0, style |-> 0, flags |-> 0,
     baseline |-> 0, boldsmear |-> 0, lo_char |-> 0, hi_char |-> 0,
     char_data |-> <<>>, modulo |-> 0,
     char_loc |-> <<>>, char_space |-> <<>>, char_kern |-> <<>>]

NoRefs ==
    [font_data_offset |-> 0, font_loc_offset |-> 0, font_space_offset |-> 0,
     font_kern_offset |-> 0, char_count |-> 0]

\* the table `foo`: the four mask bytes of each nibble
foo ==
    << <<0, 0, 0, 0>>,       <<0, 0, 0, 255>>,
       <<0, 0, 255, 0>>,     <<0, 0, 255, 255>>,
       <<0, 255, 0, 0>>,     <<0, 255, 0, 255>>,
       <<0, 255, 255, 0>>,   <<0, 255, 255, 255>>,
       <<255, 0, 0, 0>>,     <<255, 0, 0, 255>>,
       <<255, 0, 255, 0>>,   <<255, 0, 255, 255>>,
       <<255, 255, 0, 0>>,   <<255, 255, 0, 255>>,
       <<255, 255, 255, 0>>, <<255, 255, 255, 255>> >>

\* a variant of HighNibble: the low nibble is taken twice
HighNibble_Low(cc) == cc % 16

\* cc >> 4
HighNibble(cc) == cc \div 16

\* cc & 0xF
LowNibble(cc) == cc % 16

\* extend_from_slice(foo[cc >> 4]); extend_from_slice(foo[cc & 0xF])
ExpandByte(cc) == foo[HighNibble(cc) + 1] \o foo[LowNibble(cc) + 1]

\* the inner loop `for xx in 0 .. modulo` of one row, from xx on
RECURSIVE UnpackRow(_, _, _, _)
UnpackRow(hunk_data, row_offset, modulo, xx) ==
    IF xx >= modulo THEN <<>>
    ELSE ExpandByte(hunk_data[row_offset + xx + 1])
         \o UnpackRow(hunk_data, row_offset, modulo, xx + 1)

\* hunk_data[row_offset + xx] leaves the payload for some xx of the row; a
\* row of 2^63 bytes or more always does
RowReadPanics(hunk_data, row_offset, modulo) ==
    \/ modulo < 0
    \/ \E xx \in 0..(modulo - 1) : (row_offset + xx) \notin 0..(Len(hunk_data) - 1)

\* a variant of CharLoopRuns: the range 0 .. char_count without its end
CharLoopRuns_Exclusive(index, char_count) == UsizeLess(index, char_count)

\* index is in 0 ..= char_count
CharLoopRuns(index, char_count) == ~UsizeLess(char_count, index)

\* a read at a usize position: a position of 2^63 or more is out of range
ReadAt(result, at) == IF at < 0 THEN ReadPanic(at) ELSE result

FontFails(status) == [status |-> status, font |-> NewDiskFont, refs |-> NoRefs]

\* load_font up to the unpacking loop
FontHeader(hunkv, name, checked) ==
    IF hunkv.header.table_size # <<0, 1>> THEN FontFails("Err")
    ELSE IF Len(hunkv.hunks) = 0 THEN FontFails("Panic")
    ELSE
    LET hunk_data == hunkv.hunks[1].data
        node_type == read_u8(hunk_data, 12)
        file_id == read_u16(hunk_data, 18)
        dfh_name == read_string(hunk_data, 26)
        tf_type == read_u8(hunk_data, 66)
        y_size == read_i16(hunk_data, 78)
        style == read_u8(hunk_data, 80)
        flags == read_u8(hunk_data, 81)
        x_size == read_i16(hunk_data, 82)
        baseline == read_i16(hunk_data, 84)
        boldsmear == read_i16(hunk_data, 86)
        lo_char == read_u8(hunk_data, 90)
        hi_char == read_u8(hunk_data, 91)
        font_data_offset == read_i32(hunk_data, 92)
        modulo == read_i16(hunk_data, 96)
        font_loc_offset == read_i32(hunk_data, 98)
        font_space_offset == read_i32(hunk_data, 102)
        font_kern_offset == read_i32(hunk_data, 106)
    IN IF read_u32(hunk_data, 8).status = "Panic" THEN FontFails("Panic")
       ELSE IF node_type.status = "Panic" THEN FontFails("Panic")
       ELSE IF node_type.value # NT_FONT THEN FontFails("Err")
       ELSE IF file_id.status = "Panic" THEN FontFails("Panic")
       ELSE IF file_id.value # DFH_ID THEN FontFails("Err")
       ELSE IF dfh_name.status = "Panic" THEN FontFails("Panic")
       ELSE IF tf_type.status = "Panic" THEN FontFails("Panic")
       ELSE IF tf_type.value # NT_FONT THEN FontFails("Err")
       ELSE IF font_kern_offset.status = "Panic" THEN FontFails("Panic")
       ELSE IF checked /\ hi_char.value < lo_char.value THEN FontFails("Panic")
       ELSE [status |-> "unpack",
             font |-> [NewDiskFont EXCEPT
                          !.name = IF Len(dfh_name.value) = 0 THEN name
                                   ELSE dfh_name.value,
                          !.y_size = y_size.value,
                          !.style = style.value,
                          !.flags = flags.value,
                          !.x_size = x_size.value,
                          !.baseline = baseline.value,
                          !.boldsmear = boldsmear.value,
                          !.lo_char = lo_char.value,
                          !.hi_char = hi_char.value,
                          !.modulo = modulo.value],
             refs |-> [font_data_offset |-> font_data_offset.value,
                       font_loc_offset |-> font_loc_offset.value,
                       font_space_offset |-> font_space_offset.value,
                       font_kern_offset |-> font_kern_offset.value,
                       char_count |-> hi_char.value - lo_char.value]]

\* the payloads handed to load_font: a DiskFontHeader laid out field by field,
\* followed by the bytes the bitmap and the glyph tables are read from
U16Bytes(v) == <<v \div 256, v % 256>>

I16Bytes(v) == U16Bytes(IF v < 0 THEN v + 65536 ELSE v)

I32Bytes(v) ==
    IF v < 0 THEN <<255, 255>> \o U16Bytes(v + 65536)
    ELSE <<v \div 16777216, (v \div 65536) % 256>> \o U16Bytes(v % 65536)

\* dfh_Name[MAXFONTNAME]: the name, padded with NULs to 32 bytes
NameField(name) == name \o Zeros(32 - Len(name))

\* the bytes after the header: a row of the bitmap is 0xA5 0x0F or 0x80 0xFF
FontTail == <<165, 15, 128, 255, 0, 1, 60, 66, 0, 129, 24, 36, 90, 195>>

FontPayload(g) ==
    <<112, 255, 78, 117>> \o Zeros(8)
    \o <<g.node_type>> \o Zeros(5)
    \o U16Bytes(g.file_id) \o Zeros(6)
    \o NameField(g.name)
    \o Zeros(8) \o <<g.tf_type>> \o Zeros(11)
    \o I16Bytes(g.y_size) \o <<0, 64>> \o I16Bytes(8) \o I16Bytes(6) \o I16Bytes(1)
    \o Zeros(2) \o <<g.lo_char, g.hi_char>>
    \o I32Bytes(g.font_data_offset) \o I16Bytes(g.modulo)
    \o I32Bytes(g.font_loc_offset)
    \o I32Bytes(g.font_space_offset)
    \o I32Bytes(g.font_kern_offset)
    \o FontTail

\* a well-formed header around each geometry: heights and row widths up to the
\* bounds and one negative value each, glyph ranges of up to MaxGlyphs glyphs
\* and one with hi_char below lo_char, tables inside and past the payload
FontGeometries ==
    [node_type : {NT_FONT}, file_id : {DFH_ID}, tf_type : {NT_FONT}, name : {<<>>},
     y_size : (0..MaxFontRows) \cup {-1},
     modulo : (0..MaxFontModulo) \cup {-1},
     lo_char : {65},
     hi_char : 64..(64 + MaxGlyphs),
     font_data_offset : {FONT_HEADER_LEN, -2},
     font_loc_offset : {FONT_HEADER_LEN, FONT_HEADER_LEN + 8},
     font_space_offset : {0, FONT_HEADER_LEN + 2},
     font_kern_offset : {0, FONT_HEADER_LEN + 4}]

\* one geometry under each header: wrong node types, a wrong file id, a name,
\* a name that is not UTF-8
FontHeaders ==
    [node_type : {NT_FONT, 13}, file_id : {DFH_ID, 0}, tf_type : {NT_FONT, 0},
     name : {<<>>, <<70, 69, 68>>, <<255, 255>>},
     y_size : {1}, modulo : {2}, lo_char : {65}, hi_char : {66},
     font_data_offset : {FONT_HEADER_LEN},
     font_loc_offset : {FONT_HEADER_LEN},
     font_space_offset : {FONT_HEADER_LEN + 2},
     font_kern_offset : {0}]

\* lengths a payload is cut to, inside the header
FontCuts == {0, 10, 12, 19, 40, 70, 100}

FontHunk(table_size, payloads) ==
    [header |-> [table_size |-> <<0, table_size>>, first_hunk |-> <<0, 0>>,
                 last_hunk |-> <<0, 0>>, hunk_sizes |-> <<>>],
     hunks |-> [i \in 1..Len(payloads) |->
                   [hunk_id |-> HUNK_CODE, hunk_size |-> Len(payloads[i]) + 4,
                    data |-> payloads[i]]]]

FontInputs ==
    {FontHunk(1, <<FontPayload(g)>>) : g \in FontGeometries \cup FontHeaders}
    \cup {FontHunk(1, <<SubSeq(FontPayload(g), 1, n)>>) :
              g \in {h \in FontHeaders : h.name = <<>> /\ h.node_type = NT_FONT
                                         /\ h.file_id = DFH_ID /\ h.tf_type = NT_FONT},
              n \in FontCuts}
    \cup {FontHunk(2, <<FontPayload(g)>>) :
              g \in {h \in FontHeaders : h.name = <<70, 69, 68>>}}
    \cup {FontHunk(1, <<>>)}

\* the `name` argument of load_font
FontNameArg == <<116, 111, 112, 97, 122>>

FontInit ==
    /\ font_hunk \in FontInputs
    /\ font = NewDiskFont
    /\ font_refs = NoRefs
    /\ font_yy = 0
    /\ font_index = 0
    /\ font_status = "start"

FontIdle ==
    /\ font_hunk = FontHunk(0, <<>>)
    /\ font = NewDiskFont
    /\ font_refs = NoRefs
    /\ font_yy = 0
    /\ font_index = 0
    /\ font_status = "idle"

\* hunk.hunks[0].data
FontData == font_hunk.hunks[1].data

\* everything before the unpacking loop
FontReadHeader ==
    /\ font_status = "start"
    /\ \E checked \in BOOLEAN :
          LET parsed == FontHeader(font_hunk, FontNameArg, checked)
          IN /\ font' = parsed.font
             /\ font_refs' = parsed.refs
             /\ font_status' = parsed.status
    /\ UNCHANGED <<font_hunk, font_yy, font_index, decodeVars, appVars, rdVars, iffVars, hunkVars>>

\* one iteration of `for yy in 0 .. disk_font.y_size`.  Rows of no bytes
\* change nothing: when there are 2^63 of them or more, the rest of the loop
\* is taken in this step
FontUnpackRow ==
    /\ font_status = "unpack"
    /\ UsizeLess(font_yy, font.y_size)
    /\ \E checked \in BOOLEAN :
          LET product == font_yy * font.modulo
              row_offset == font_refs.font_data_offset + product
              overflows ==
                  \/ UsizeMulOverflows(font_yy, font.modulo)
                  \/ UsizeAddOverflows(font_refs.font_data_offset, product)
          IN IF (checked /\ overflows) \/ RowReadPanics(FontData, row_offset, font.modulo)
             THEN /\ font_status' = "Panic"
                  /\ UNCHANGED <<font, font_yy>>
             ELSE /\ font' = [font EXCEPT !.char_data =
                                 @ \o UnpackRow(FontData, row_offset, font.modulo, 0)]
                  /\ font_yy' = IF font.modulo = 0 /\ font.y_size < 0 THEN font.y_size
                                ELSE font_yy + 1
                  /\ UNCHANGED font_status
    /\ UNCHANGED <<font_hunk, font_refs, font_index, decodeVars, appVars, rdVars, iffVars, hunkVars>>

\* the end of the unpacking loop: disk_font.modulo *= 8
FontScaleModulo ==
    /\ font_status = "unpack"
    /\ ~UsizeLess(font_yy, font.y_size)
    /\ \E checked \in BOOLEAN :
          IF checked /\ UsizeMulOverflows(font.modulo, 8)
          THEN /\ font_status' = "Panic"
               /\ UNCHANGED font
          ELSE /\ font' = [font EXCEPT !.modulo = @ * 8]
               /\ font_status' = "chars"
    /\ UNCHANGED <<font_hunk, font_refs, font_yy, font_index, decodeVars, appVars, rdVars, iffVars, hunkVars>>

\* one iteration of `for index in 0 ..= char_count`
FontLoadChar ==
    /\ font_status = "chars"
    /\ CharLoopRuns(font_index, font_refs.char_count)
    /\ \E checked \in BOOLEAN :
          LET loc_at == font_refs.font_loc_offset + font_index * 4
              space_at == font_refs.font_space_offset + font_index * 2
              kern_at == font_refs.font_kern_offset + font_index * 2
              has_space == UsizeLess(0, font_refs.font_space_offset)
              has_kern == UsizeLess(0, font_refs.font_kern_offset)
              char_off == ReadAt(read_u16(FontData, loc_at), loc_at)
              char_len == ReadAt(read_u16(FontData, loc_at + 2), loc_at + 2)
              char_space == ReadAt(read_i16(FontData, space_at), space_at)
              char_kern == ReadAt(read_i16(FontData, kern_at), kern_at)
              overflows ==
                  \/ UsizeAddOverflows(font_refs.font_loc_offset, font_index * 4)
                  \/ has_space /\ UsizeAddOverflows(font_refs.font_space_offset, font_index * 2)
                  \/ has_kern /\ UsizeAddOverflows(font_refs.font_kern_offset, font_index * 2)
              panics ==
                  \/ checked /\ overflows
                  \/ char_off.status = "Panic" \/ char_len.status = "Panic"
                  \/ has_space /\ char_space.status = "Panic"
                  \/ has_kern /\ char_kern.status = "Panic"
          IN IF panics
             THEN /\ font_status' = "Panic"
                  /\ UNCHANGED <<font, font_index>>
             ELSE /\ font' = [font EXCEPT
                                 !.char_loc = Append(@, <<char_off.value, char_len.value>>),
                                 !.char_space = IF has_space THEN Append(@, char_space.value)
                                                ELSE @,
                                 !.char_kern = IF has_kern THEN Append(@, char_kern.value)
                                               ELSE @]
                  /\ font_index' = font_index + 1
                  /\ UNCHANGED font_status
    /\ UNCHANGED <<font_hunk, font_refs, font_yy, decodeVars, appVars, rdVars, iffVars, hunkVars>>

\* Ok(disk_font)
FontReturn ==
    /\ font_status = "chars"
    /\ ~CharLoopRuns(font_index, font_refs.char_count)
    /\ font_status' = "Ok"
    /\ UNCHANGED <<font_hunk, font, font_refs, font_yy, font_index,
                   decodeVars, appVars, rdVars, iffVars, hunkVars>>

FontNext ==
    \/ FontReadHeader
    \/ FontUnpackRow
    \/ FontScaleModulo
    \/ FontLoadChar
    \/ FontReturn

----------------------------------------------------------------------------
(* game_library.rs: load_game_library, and FontAsset::load of font.rs.  An   *)
(* asset is what its decoder makes of its file: load_font_file returns Some *)
(* or None or panics, load_font and IffImage::load_from_file return Ok or   *)
(* Err or panic.  One action is one iteration of one of the two loops.      *)

\* a font size of a .font directory: its file is missing, or load_font's result
SizeOutcomes == {"Missing", "Ok", "Err", "Panic"}

\* a font asset: load_font_file's result and, when Some, the sizes it lists
FontAssets ==
    {[directory |-> "Some", sizes |-> q] :
        q \in UNION {SeqsOfLen(SizeOutcomes, n) : n \in 0..MaxFontSizes}}
    \cup {[directory |-> d, sizes |-> <<>>] : d \in {"None", "Panic"}}

\* IffImage::load_from_file's result
ImageOutcomes == {"Ok", "Err", "Panic"}

\* the first size of a directory whose load_font does not return Ok, or 0
RECURSIVE FirstBadSize(_, _)
FirstBadSize(sizes, i) ==
    IF i > Len(sizes) THEN 0
    ELSE IF sizes[i] \in {"Err", "Panic"} THEN i
    ELSE FirstBadSize(sizes, i + 1)

\* the sizes among the first n of a directory with the given outcome
CountSizes(sizes, n, outcome) == Cardinality({i \in 1..n : sizes[i] = outcome})

\* FontAsset::load: load_font_file(..).unwrap(), then for each size a warning
\* when the file is missing and load_font(..).unwrap() otherwise
FontAssetLoad(asset) ==
    IF asset.directory # "Some"
    THEN [status |-> "Panic", loaded |-> FALSE, fonts |-> 0, warnings |-> 0]
    ELSE LET bad == FirstBadSize(asset.sizes, 1)
             taken == IF bad = 0 THEN Len(asset.sizes) ELSE bad - 1
         IN [status |-> IF bad = 0 THEN "Ok" ELSE "Panic",
             loaded |-> bad = 0,
             fonts |-> CountSizes(asset.sizes, taken, "Ok"),
             warnings |-> CountSizes(asset.sizes, taken, "Missing")]

LibInit ==
    /\ lib_fonts \in UNION {SeqsOfLen(FontAssets, n) : n \in 0..MaxLibFonts}
    /\ lib_images \in UNION {SeqsOfLen(ImageOutcomes, n) : n \in 0..MaxLibImages}
    /\ lib_at = 0
    /\ lib_loaded = <<>>
    /\ lib_warnings = 0
    /\ lib_status = "loading"

LibIdle ==
    /\ lib_fonts = <<>>
    /\ lib_images = <<>>
    /\ lib_at = 0
    /\ lib_loaded = <<>>
    /\ lib_warnings = 0
    /\ lib_status = "idle"

\* for font_asset in game_lib.fonts.values_mut() { font_asset.load()?; }
LoadFontAsset ==
    /\ lib_status = "loading"
    /\ lib_at < Len(lib_fonts)
    /\ LET result == FontAssetLoad(lib_fonts[lib_at + 1])
       IN /\ lib_loaded' = Append(lib_loaded,
                                  [loaded |-> result.loaded, fonts |-> result.fonts])
          /\ lib_warnings' = lib_warnings + result.warnings
          /\ lib_status' = IF result.status = "Ok" THEN "loading" ELSE result.status
    /\ lib_at' = lib_at + 1
    /\ UNCHANGED <<lib_fonts, lib_images, decodeVars, loadVars, notLib>>

\* image_asset.image = Some(IffImage::load_from_file(..)?)
LoadImageAsset ==
    /\ lib_status = "loading"
    /\ lib_at >= Len(lib_fonts)
    /\ lib_at < Len(lib_fonts) + Len(lib_images)
    /\ LET result == lib_images[lib_at - Len(lib_fonts) + 1]
       IN /\ lib_loaded' = Append(lib_loaded, [loaded |-> result = "Ok", fonts |-> 0])
          /\ lib_status' = IF result = "Ok" THEN "loading" ELSE result
    /\ lib_at' = lib_at + 1
    /\ UNCHANGED <<lib_fonts, lib_images, lib_warnings, decodeVars, loadVars, notLib>>

\* Ok(game_lib)
LibReturn ==
    /\ lib_status = "loading"
    /\ lib_at = Len(lib_fonts) + Len(lib_images)
    /\ lib_status' = "Ok"
    /\ UNCHANGED <<lib_fonts, lib_images, lib_at, lib_loaded, lib_warnings,
                   decodeVars, loadVars, notLib>>

LibNext ==
    \/ LoadFontAsset
    \/ LoadImageAsset
    \/ LibReturn

----------------------------------------------------------------------------
(* settings.rs: GameSettings.  An f32 is a number of tenths, or NaN; the    *)
(* comparisons are those of IEEE 754, under which NaN differs from itself.  *)

F32(tenths) == [nan |-> FALSE, tenths |-> tenths]

NaN == [nan |-> TRUE, tenths |-> 0]

\* a != b on f32
F32Ne(a, b) == a.nan \/ b.nan \/ a.tenths # b.tenths

\* v.clamp(0.0, 1.0): NaN stays NaN
Clamp(v) ==
    IF v.nan THEN v
    ELSE IF v.tenths < 0 THEN F32(0)
    ELSE IF v.tenths > 10 THEN F32(10)
    ELSE v

\* GameSettings::default()
DefaultSettings ==
    [window_position |-> <<>>, window_size |-> <<>>, fullscreen |-> FALSE,
     volume |-> F32(10), music_volume |-> F32(10), muted |-> FALSE, dirty |-> FALSE]

\* the arguments of the calls
Volumes == {F32(-5), F32(0), F32(5), F32(10), F32(15), NaN}
WindowSizes == {<<800, 600>>, <<640, 400>>}
WindowPositions == {<<0, 0>>, <<-10, 20>>}

NoCall == [op |-> "new", arg |-> <<>>, wrote |-> FALSE, status |-> "Ok"]

Called(op, arg) == [op |-> op, arg |-> <<arg>>, wrote |-> FALSE, status |-> "Ok"]

\* GameSettings::new()
SettingsInit ==
    /\ settings = DefaultSettings
    /\ set_last = NoCall

SettingsIdle == SettingsInit

set_volume(volume) ==
    /\ settings' = IF F32Ne(settings.volume, volume)
                   THEN [settings EXCEPT !.volume = Clamp(volume), !.dirty = TRUE]
                   ELSE settings
    /\ set_last' = Called("set_volume", volume)
    /\ UNCHANGED <<decodeVars, loadVars, notSet>>

set_music_volume(music_volume) ==
    /\ settings' = IF F32Ne(settings.music_volume, music_volume)
                   THEN [settings EXCEPT !.music_volume = Clamp(music_volume),
                                         !.dirty = TRUE]
                   ELSE settings
    /\ set_last' = Called("set_music_volume", music_volume)
    /\ UNCHANGED <<decodeVars, loadVars, notSet>>

set_muted(muted) ==
    /\ settings' = IF settings.muted # muted
                   THEN [settings EXCEPT !.muted = muted, !.dirty = TRUE]
                   ELSE settings
    /\ set_last' = Called("set_muted", muted)
    /\ UNCHANGED <<decodeVars, loadVars, notSet>>

set_fullscreen(fullscreen) ==
    /\ settings' = IF settings.fullscreen # fullscreen
                   THEN [settings EXCEPT !.fullscreen = fullscreen, !.dirty = TRUE]
                   ELSE settings
    /\ set_last' = Called("set_fullscreen", fullscreen)
    /\ UNCHANGED <<decodeVars, loadVars, notSet>>

set_window_size(size) ==
    /\ settings' = IF settings.window_size # <<size>>
                   THEN [settings EXCEPT !.window_size = <<size>>, !.dirty = TRUE]
                   ELSE settings
    /\ set_last' = Called("set_window_size", size)
    /\ UNCHANGED <<decodeVars, loadVars, notSet>>

set_window_position(position) ==
    /\ settings' = IF settings.window_position # <<position>>
                   THEN [settings EXCEPT !.window_position = <<position>>,
                                         !.dirty = TRUE]
                   ELSE settings
    /\ set_last' = Called("set_window_position", position)
    /\ UNCHANGED <<decodeVars, loadVars, notSet>>

\* save(): when dirty, the directory is created, the settings are serialised
\* and written: `written` is whether all of it succeeds.  std::fs::write is
\* reached when the two steps before it succeed: `reached`
save(reached, written) ==
    /\ written => reached
    /\ IF settings.dirty
       THEN /\ settings' = IF written THEN [settings EXCEPT !.dirty = FALSE]
                           ELSE settings
            /\ set_last' = [op |-> "save", arg |-> <<>>, wrote |-> reached,
                            status |-> IF written THEN "Ok" ELSE "Err"]
       ELSE /\ settings' = settings
            /\ set_last' = [op |-> "save", arg |-> <<>>, wrote |-> FALSE,
                            status |-> "Ok"]
    /\ UNCHANGED <<decodeVars, loadVars, notSet>>

SettingsNext ==
    \/ \E volume \in Volumes : set_volume(volume)
    \/ \E music_volume \in Volumes : set_music_volume(music_volume)
    \/ \E muted \in BOOLEAN : set_muted(muted)
    \/ \E fullscreen \in BOOLEAN : set_fullscreen(fullscreen)
    \/ \E size \in WindowSizes : set_window_size(size)
    \/ \E position \in WindowPositions : set_window_position(position)
    \/ \E reached \in BOOLEAN, written \in BOOLEAN : save(reached, written)

----------------------------------------------------------------------------
(* game_clock.rs: GameClock and its GameTicker.  Real time advances between *)
(* calls and not during one.  An f64 product or quotient whose exact value  *)
(* is a whole number may be rounded to just below it, and then truncates to *)
(* one less: `below` is that outcome; any other value truncates to its      *)
(* floor.                                                                   *)

NANOS_PER_TICK == 16666667

TICKS_PER_DAY == 24000

TICKS_PER_HOUR == 1000

\* GameClock::new()
NewGameClock ==
    [total_ticks |-> 0, game_ticks |-> 0, paused |-> FALSE, accumulated_nanos |-> 0]

NoClockCall == [op |-> "new", value |-> <<>>]

\* (x * 1000 / 60) as u64, TICKS_PER_MINUTE being 1000 / 60
TimesTicksPerMinute(x, below) ==
    IF (x * 50) % 3 = 0 /\ x > 0 /\ below THEN (x * 50) \div 3 - 1
    ELSE (x * 50) \div 3

\* (x as f64 / TICKS_PER_MINUTE) as u32
OverTicksPerMinute(x, below) ==
    IF (x * 3) % 50 = 0 /\ x > 0 /\ below THEN (x * 3) \div 50 - 1
    ELSE (x * 3) \div 50

\* GameClock::get_game_wall_clock
get_game_wall_clock(game_ticks, below) ==
    LET day_ticks == game_ticks % TICKS_PER_DAY
        hour == day_ticks \div TICKS_PER_HOUR
        minute == OverTicksPerMinute(day_ticks % TICKS_PER_HOUR, below)
        day == game_ticks \div TICKS_PER_DAY
    IN <<day, hour, minute>>

\* the game_ticks GameClock::set_game_wall_clock stores
WallClockTicks(day, hour, minute, below) ==
    TimesTicksPerMinute(day * 24 * 60 + hour * 60 + minute, below)

\* GameClock::get_day_phase
get_day_phase(game_ticks) ==
    LET day_ticks == game_ticks % TICKS_PER_DAY
        hour == day_ticks \div TICKS_PER_HOUR
    IN IF hour \in 0..7 THEN "Midnight"
       ELSE IF hour \in 8..11 THEN "Morning"
       ELSE IF hour \in 12..17 THEN "Midday"
       ELSE "Evening"

\* a variant of TickerReset: the ticker is left as it is
TickerReset_Keeps(c, since) == [clock |-> c, since |-> since]

\* GameTicker::reset
TickerReset(c, since) == [clock |-> [c EXCEPT !.accumulated_nanos = 0], since |-> 0]

\* GameTicker::get_elapsed_ticks, GameTicker::update included
GetElapsedTicks(c, since) ==
    LET accumulated == c.accumulated_nanos + since
    IN [ticks |-> accumulated \div NANOS_PER_TICK,
        clock |-> [c EXCEPT !.accumulated_nanos = accumulated % NANOS_PER_TICK],
        since |-> 0]

\* GameClock::update
Update(c, since) ==
    IF c.paused THEN [clock |-> c, since |-> since]
    ELSE LET elapsed == GetElapsedTicks(c, since)
         IN [clock |-> [elapsed.clock EXCEPT
                           !.total_ticks = @ + elapsed.ticks,
                           !.game_ticks = @ + elapsed.ticks],
             since |-> elapsed.since]

\* the real time between two calls
ClockDeltas == {10000000, 25000000}

ClockIdle ==
    /\ clock = NewGameClock
    /\ clock_since = 0
    /\ clock_run = 0
    /\ clock_steps = 0
    /\ clock_args = <<0, 0, 0>>
    /\ clock_last = NoClockCall

\* a new clock, and the arguments of the wall-clock call to come
ClockInit ==
    /\ clock = NewGameClock
    /\ clock_since = 0
    /\ clock_run = 0
    /\ clock_steps = 0
    /\ clock_args \in (0..MaxDay) \X (0..23) \X (0..59)
    /\ clock_last = NoClockCall

\* real time passes
Elapse(delta) ==
    /\ clock_steps < MaxElapses
    /\ clock_steps' = clock_steps + 1
    /\ clock_since' = clock_since + delta
    /\ clock_run' = IF clock.paused THEN clock_run ELSE clock_run + delta
    /\ clock_last' = [op |-> "elapse", value |-> <<delta>>]
    /\ UNCHANGED <<clock, clock_args, decodeVars, loadVars, notClock>>

ClockUpdate ==
    /\ LET r == Update(clock, clock_since)
       IN clock' = r.clock /\ clock_since' = r.since
    /\ clock_last' = [op |-> "update", value |-> <<>>]
    /\ UNCHANGED <<clock_run, clock_steps, clock_args, decodeVars, loadVars, notClock>>

\* self.update(); self.paused = true
ClockPause ==
    /\ LET r == Update(clock, clock_since)
       IN clock' = [r.clock EXCEPT !.paused = TRUE] /\ clock_since' = r.since
    /\ clock_last' = [op |-> "pause", value |-> <<>>]
    /\ UNCHANGED <<clock_run, clock_steps, clock_args, decodeVars, loadVars, notClock>>

\* self.ticker.reset(); self.paused = false
ClockResume ==
    /\ LET r == TickerReset(clock, clock_since)
       IN clock' = [r.clock EXCEPT !.paused = FALSE] /\ clock_since' = r.since
    /\ clock_last' = [op |-> "resume", value |-> <<>>]
    /\ UNCHANGED <<clock_run, clock_steps, clock_args, decodeVars, loadVars, notClock>>

\* set_game_wall_clock(day, hour, minute) with the arguments chosen
SetGameWallClock ==
    /\ clock_last.op = "new"
    /\ \E below \in BOOLEAN :
          LET r == TickerReset(clock, clock_since)
          IN /\ clock' = [r.clock EXCEPT !.game_ticks =
                             WallClockTicks(clock_args[1], clock_args[2],
                                            clock_args[3], below)]
             /\ clock_since' = r.since
    /\ clock_last' = [op |-> "set_game_wall_clock", value |-> clock_args]
    /\ UNCHANGED <<clock_run, clock_steps, clock_args, decodeVars, loadVars, notClock>>

\* get_game_wall_clock() right after
GetGameWallClock ==
    /\ clock_last.op = "set_game_wall_clock"
    /\ \E below \in BOOLEAN :
          clock_last' = [op |-> "get_game_wall_clock",
                         value |-> get_game_wall_clock(clock.game_ticks, below)]
    /\ UNCHANGED <<clock, clock_since, clock_run, clock_steps, clock_args,
                   decodeVars, loadVars, notClock>>

ClockNext ==
    \/ \E delta \in ClockDeltas : Elapse(delta)
    \/ ClockUpdate
    \/ ClockPause
    \/ ClockResume

WallClockNext ==
    \/ SetGameWallClock
    \/ GetGameWallClock

----------------------------------------------------------------------------
(* placard.rs: PlacardRenderer::update, start_placard_renderer and the      *)
(* one-shot draw_placard_border.  A line is <<x1, y1, x2, y2>>.  One action *)
(* is one call of update.                                                   *)

MOD == 4

XMOD == <<-MOD, -MOD, -MOD, 0, 0, 0, MOD, MOD, 0, -MOD, 0, MOD, MOD, 0, 0, 0>>

YMOD == <<0, 0, 0, MOD, MOD, MOD, 0, 0, -MOD, 0, -MOD, 0, 0, MOD, MOD, MOD>>

\* the blocks of the border, and the segments of a block
BLOCKS == 17

SEGMENTS == 16

\* the smallest delta_ticks whose product with 3 leaves i32
I32_THIRD == 715827883

\* delta_ticks * 3 on i32, wrapped
TimesThree(delta_ticks) ==
    IF delta_ticks >= I32_THIRD
    THEN (delta_ticks - I32_THIRD) * 3 - 2147483647
    ELSE delta_ticks * 3

TimesThreeOverflows(delta_ticks) == delta_ticks >= I32_THIRD

\* a variant of SidesDrawn: one block more has its left and right segments
SidesDrawn_OneMore(block_index) == block_index < 8

\* if self.block_index < 7
SidesDrawn(block_index) == block_index < 7

\* the lines update draws for the segment from (xorg, yorg) to (dx, dy)
SegmentLines(block_index, xorg, yorg, dx, dy) ==
    (IF SidesDrawn(block_index)
     THEN << <<xorg, yorg, dx, dy>>,
             <<284 - xorg, 124 - yorg, 284 - dx, 124 - dy>> >>
     ELSE <<>>)
    \o << <<16 + yorg, 12 - xorg, 16 + dy, 12 - dx>>,
          <<268 - yorg, 112 + xorg, 268 - dy, 112 + dx>> >>

\* the iterations of the loop `for _ in 0 .. count` of update inside one
\* block: up to the end of the count, the `return false`, or the step that
\* moves on to the next block
RECURSIVE UpdateBlock(_, _, _)
UpdateBlock(r, left, lines) ==
    IF left <= 0 \/ r.block_index >= BLOCKS
    THEN [plac |-> r, left |-> left, lines |-> lines]
    ELSE LET dx == r.xorg + XMOD[r.segment_index + 1]
             dy == r.yorg + YMOD[r.segment_index + 1]
             wraps == r.segment_index + 1 >= SEGMENTS
             stepped == [block_index |-> IF wraps THEN r.block_index + 1
                                         ELSE r.block_index,
                         segment_index |-> IF wraps THEN 0 ELSE r.segment_index + 1,
                         xorg |-> dx, yorg |-> dy]
             drawn == lines \o SegmentLines(r.block_index, r.xorg, r.yorg, dx, dy)
         IN IF wraps THEN [plac |-> stepped, left |-> left - 1, lines |-> drawn]
            ELSE UpdateBlock(stepped, left - 1, drawn)

\* the loop `for _ in 0 .. count` of update, block after block: the renderer
\* and the lines drawn when it ends, and whether it ended by `return false`
RECURSIVE UpdateLoop(_, _, _)
UpdateLoop(r, left, lines) ==
    IF left <= 0 THEN [plac |-> r, lines |-> lines, returned |-> FALSE]
    ELSE IF r.block_index >= BLOCKS THEN [plac |-> r, lines |-> lines, returned |-> TRUE]
    ELSE LET block == UpdateBlock(r, left, lines)
         IN UpdateLoop(block.plac, block.left, block.lines)

\* the segment drawn in colors[0] after the loop, when the task is not finished
PreviewLines(r) ==
    IF r.block_index < BLOCKS
    THEN SegmentLines(r.block_index, r.xorg, r.yorg,
                      r.xorg + XMOD[r.segment_index + 1],
                      r.yorg + YMOD[r.segment_index + 1])
    ELSE <<>>

\* draw_placard_border: the loop `for jj in 0 ..= 15` from jj on, the lines
\* it draws and the xorg and yorg it leaves
RECURSIVE BorderSegments(_, _, _, _, _)
BorderSegments(ii, jj, xorg, yorg, lines) ==
    IF jj > 15 THEN [xorg |-> xorg, yorg |-> yorg, lines |-> lines]
    ELSE LET dy == yorg + YMOD[jj + 1]
             dx == xorg + XMOD[jj + 1]
         IN BorderSegments(ii, jj + 1, dx, dy,
                lines
                \o (IF ii < 7
                    THEN << <<xorg, yorg, dx, dy>>,
                            <<284 - xorg, 124 - yorg, 284 - dx, 124 - dy>> >>
                    ELSE <<>>)
                \o << <<16 + yorg, 12 - xorg, 16 + dy, 12 - dx>>,
                      <<268 - yorg, 112 + xorg, 268 - dy, 112 + dx>> >>)

\* draw_placard_border: the loop `for ii in 0 ..= 16` from ii on
RECURSIVE BorderLines(_, _, _)
BorderLines(ii, xorg, yorg) ==
    IF ii > 16 THEN <<>>
    ELSE LET block == BorderSegments(ii, 0, xorg, yorg, <<>>)
         IN block.lines \o BorderLines(ii + 1, block.xorg, block.yorg)

draw_placard_border == BorderLines(0, 12, 0)

\* start_placard_renderer(origin, palette)
start_placard_renderer(origin) ==
    [block_index |-> 0, segment_index |-> 0, xorg |-> origin[1] + 12,
     yorg |-> origin[2] + 0]

PlacardOrigins == {<<0, 0>>, <<5, -3>>}

\* the delta_ticks of a call: none, negative, up to MaxDelta, enough for the
\* whole border in one call, and one whose product with 3 leaves i32
PlacardDeltas == (-1..MaxDelta) \cup {91, I32_THIRD}

\* the record of a renderer no update was called on, started at origin
Started(origin) ==
    [op |-> "start", origin |-> origin, delta_ticks |-> 0, block_index |-> 0,
     result |-> "none"]

PlacardInit ==
    /\ \E origin \in PlacardOrigins :
          /\ plac = start_placard_renderer(origin)
          /\ plac_last = Started(origin)
    /\ plac_drawn = <<>>
    /\ plac_preview = <<>>

PlacardIdle ==
    /\ plac = start_placard_renderer(<<0, 0>>)
    /\ plac_drawn = <<>>
    /\ plac_preview = <<>>
    /\ plac_last = Started(<<0, 0>>)

\* PlacardRenderer::update(canvas, delta_ticks, area)
PlacardUpdate(delta_ticks) ==
    /\ plac_last.result # "Panic"
    /\ \E checked \in BOOLEAN :
          IF checked /\ TimesThreeOverflows(delta_ticks)
          THEN /\ plac_last' = [op |-> "update", origin |-> plac_last.origin,
                                delta_ticks |-> delta_ticks,
                                block_index |-> plac.block_index, result |-> "Panic"]
               /\ UNCHANGED <<plac, plac_drawn, plac_preview>>
          ELSE LET loop == UpdateLoop(plac, TimesThree(delta_ticks), <<>>)
               IN /\ plac' = loop.plac
                  /\ plac_drawn' = loop.lines
                  /\ plac_preview' = IF loop.returned THEN <<>>
                                     ELSE PreviewLines(loop.plac)
                  /\ plac_last' = [op |-> "update", origin |-> plac_last.origin,
                                   delta_ticks |-> delta_ticks,
                                   block_index |-> plac.block_index,
                                   result |-> IF loop.returned THEN "false" ELSE "true"]
    /\ UNCHANGED <<decodeVars, loadVars, notPlac>>

PlacardNext == \E delta_ticks \in PlacardDeltas : PlacardUpdate(delta_ticks)

----------------------------------------------------------------------------
(* Specifications *)

\* the library loader, the settings, the clock and the placard, not started
AppIdle == LibIdle /\ SettingsIdle /\ ClockIdle /\ PlacardIdle

\* the loaders at rest
LoadIdle == CursorIdle /\ IffIdle /\ HunkIdle /\ FontIdle /\ AppIdle

\* one BitMap: construction, conversions, writes to its planes
Init == BitMapInit /\ PaletteIdle /\ ByteRunIdle /\ LoadIdle
Next == BitMapNext
Spec == Init /\ [][Next]_vars

\* BitMap::build over a range of sizes
NextBuild == BuildNext
SpecBuild == Init /\ [][NextBuild]_vars

\* Palette::to_rgba32_table over a range of palettes and depths
InitPalette == PaletteInit /\ BitMapInit /\ ByteRunIdle /\ LoadIdle
NextPalette == PaletteNext
SpecPalette == InitPalette /\ [][NextPalette]_vars

\* the ByteRun1 decoder over a range of chunks
InitByteRun == ByteRunInit /\ BitMapInit /\ PaletteIdle /\ LoadIdle
NextByteRun == ByteRunNext
SpecByteRun == InitByteRun /\ [][NextByteRun]_vars

\* the byte-cursor reads over a range of buffers and offsets
InitByteOps == AppIdle /\ CursorInit /\ IffIdle /\ HunkIdle /\ FontIdle /\ BitMapInit /\ PaletteIdle /\ ByteRunIdle
NextByteOps == CursorNext
SpecByteOps == InitByteOps /\ [][NextByteOps]_vars

\* IffImage::load_from_data over a range of files
InitIff == AppIdle /\ IffInit /\ CursorIdle /\ HunkIdle /\ FontIdle /\ BitMapInit /\ PaletteIdle /\ ByteRunIdle
NextIff == IffNext
SpecIff == InitIff /\ [][NextIff]_vars

\* load_hunkfile over a range of files
InitHunk == AppIdle /\ HunkInit /\ CursorIdle /\ IffIdle /\ FontIdle /\ BitMapInit /\ PaletteIdle /\ ByteRunIdle
NextHunk == HunkNext
SpecHunk == InitHunk /\ [][NextHunk]_vars

\* load_font on every enumerated payload
InitFont ==
    /\ FontInit /\ CursorIdle /\ IffIdle /\ HunkIdle /\ AppIdle
    /\ BitMapInit /\ PaletteIdle /\ ByteRunIdle
NextFont == FontNext
SpecFont == InitFont /\ [][NextFont]_vars

\* the rest of the model, not started
RestIdle ==
    /\ BitMapInit /\ PaletteIdle /\ ByteRunIdle
    /\ CursorIdle /\ IffIdle /\ HunkIdle /\ FontIdle

\* update_rgb32 on buffers and strides of the caller's choice
InitUpdate == UpdateInit /\ PaletteIdle /\ ByteRunIdle /\ LoadIdle
NextUpdate == UpdateNext
SpecUpdate == InitUpdate /\ [][NextUpdate]_vars

\* load_game_library on every enumerated library
InitLib == LibInit /\ RestIdle /\ SettingsIdle /\ ClockIdle /\ PlacardIdle
NextLib == LibNext
SpecLib == InitLib /\ [][NextLib]_vars

\* a GameSettings object under every sequence of calls
InitSettings == SettingsInit /\ RestIdle /\ LibIdle /\ ClockIdle /\ PlacardIdle
NextSettings == SettingsNext
SpecSettings == InitSettings /\ [][NextSettings]_vars

\* a GameClock under updates, pauses and resumes as real time passes
InitClock == ClockIdle /\ RestIdle /\ LibIdle /\ SettingsIdle /\ PlacardIdle
NextClock == ClockNext
SpecClock == InitClock /\ [][NextClock]_vars

\* set_game_wall_clock then get_game_wall_clock, for every time of day
InitWallClock == ClockInit /\ RestIdle /\ LibIdle /\ SettingsIdle /\ PlacardIdle
NextWallClock == WallClockNext
SpecWallClock == InitWallClock /\ [][NextWallClock]_vars

\* a PlacardRenderer under every sequence of updates
InitPlacard == PlacardInit /\ RestIdle /\ LibIdle /\ SettingsIdle /\ ClockIdle
NextPlacard == PlacardNext
SpecPlacard == InitPlacard /\ [][NextPlacard]_vars

----------------------------------------------------------------------------
(* Claims about the conversion (Spec) *)

IsConversion(op) == op \in {"generate_rgb32", "update_rgb32"}

\* the colour table a call builds from its palette and key colour
CallTable(colors, depth, key_color) ==
    ApplyKeyColor(ToRgba32Table(colors, depth).table, key_color)

\* buf holds, for every pixel n of a width x height image laid out with the
\* given row stride, the four bytes of the colour of index indices[n]
ShowsIndices(buf, indices, color_table, width, height, stride) ==
    \A n \in 1..(width * height), k \in 0..3 :
        buf[((n - 1) \div width) * stride + ((n - 1) % width) * 4 + k + 1]
            = ColorByte(color_table[indices[n] + 1], k)

\* C1: while the planes have not been written since construction, whatever
\* calls came before, a conversion call returns and writes exactly what a
\* BitMap with the same planes and an empty index cache returns and writes
\* for the same buffer, stride, palette and key colour.
C1_CacheNeverStale ==
    [][ /\ (mutations' = 0 /\ last'.op = "update_rgb32") =>
              LET fresh == UpdateRgb32(bitmap, <<>>, pixels, last'.stride,
                                       last'.colors, last'.key)
              IN /\ last'.status = fresh.status
                 /\ pixels' = fresh.pixels
        /\ (mutations' = 0 /\ last'.op = "generate_rgb32") =>
              LET fresh == GenerateRgb32(bitmap, <<>>, last'.colors, last'.key)
              IN /\ last'.status = fresh.status
                 /\ fresh.status = "Ok" => pixels' = fresh.pixels /\ pix_stride' = fresh.stride
      ]_vars

\* a successful update_rgb32 into a buffer an earlier call filled, the index
\* cache being in place, on planes never written, showing a non-transparent colour
C1_Witness ==
    /\ last.op = "update_rgb32" /\ last.status = "Ok"
    /\ mutations = 0
    /\ index_buffer # <<>>
    /\ last.colors = <<3840, 240>> /\ last.key = <<1>>
    /\ \E j \in 1..Len(pixels) : pixels[j] # 0

\* C2: the index cache is written once, by the first conversion call that
\* reaches the scan, with the scan of the planes as they are then; no later
\* step changes it, and every later successful call writes the colours of the
\* cached indices, whatever the planes hold by then.
C2_IndexCacheWriteOnce ==
    [][ /\ index_buffer # <<>> => index_buffer' = index_buffer
        /\ (index_buffer = <<>> /\ index_buffer' # <<>>) =>
              /\ IsConversion(last'.op)
              /\ index_buffer' = <<ScanIndex(bitmap)>>
        /\ (index_buffer # <<>> /\ IsConversion(last'.op) /\ last'.status = "Ok") =>
              ShowsIndices(pixels', index_buffer[1],
                           CallTable(last'.colors, bitmap.depth, last'.key),
                           bitmap.width, bitmap.height, last'.stride)
      ]_vars

\* a successful call made after a plane byte was written, with a cache that no
\* longer matches the planes
C2_Witness ==
    /\ IsConversion(last.op) /\ last.status = "Ok"
    /\ mutations > 0
    /\ index_buffer # <<>>
    /\ ~ScanPanics(bitmap)
    /\ index_buffer[1] # ScanIndex(bitmap)
    /\ \E j \in 1..Len(pixels) : pixels[j] # 0

\* the palette index the planes give pixel (x, y): bit p of i is bit
\* 7 - (x mod 8) of byte y * stride + x div 8 of plane p
IsPlaneIndex(i, bm, x, y) ==
    \A p \in 0..(bm.depth - 1) :
        (i \div (2 ^ p)) % 2
            = (bm.planes[p + 1][y * bm.stride + (x \div 8) + 1] \div (2 ^ (7 - (x % 8)))) % 2

C4_KeyColor ==
    /\ (IsConversion(last.op) /\ last.status = "Ok" /\ last.key # <<>>) =>
          LET k     == last.key[1]
              plain == ToRgba32Table(last.colors, bitmap.depth).table
          IN \A n \in 1..(bitmap.width * bitmap.height), b \in 0..3 :
                pixels[((n - 1) \div bitmap.width) * last.stride
                       + ((n - 1) % bitmap.width) * 4 + b + 1]
                  = IF k < 2 ^ bitmap.depth /\ index_buffer[1][n] = k
                    THEN 0
                    ELSE ColorByte(plain[index_buffer[1][n] + 1], b)
    /\ (IsConversion(last.op) /\ last.status = "Err") =>
          \/ bitmap.depth \notin 1..5
          \/ last.op = "update_rgb32"
               /\ Len(pixels) < bitmap.width * bitmap.height * 4

\* a call with key colour 1 and the test palette (entry 1 is white) that wrote
\* both a keyed pixel and a pixel of another, opaque colour
C4_Witness ==
    /\ IsConversion(last.op) /\ last.status = "Ok"
    /\ last.key = <<1>> /\ last.colors = TestPalette
    /\ bitmap.depth >= 2
    /\ \E n \in 1..(bitmap.width * bitmap.height) : index_buffer[1][n] = 1
    /\ \E j \in 1..Len(pixels) : pixels[j] # 0

\* the BitMap with_data builds from the contiguous arrangement of src's planes
ContiguousTwin ==
    WithData(ContiguousData(src.shape), src.shape.width, src.shape.height,
             src.shape.depth, src.shape.stride)

\* C6: with_interleaved_data on the row-interleaved arrangement of a logical
\* bitmap yields the BitMap with_data yields on the contiguous arrangement:
\* the same planes, hence the same index array and the same RGBA output; on
\* data one byte short both constructors panic.
C6_InterleavedEqualsContiguous ==
    (src.ctor = "with_interleaved_data") =>
        /\ (~src.short /\ mutations = 0) =>
              /\ bitmap = ContiguousTwin
              /\ index_buffer # <<>> => index_buffer[1] = ScanIndex(ContiguousTwin)
              /\ (last.op = "generate_rgb32" /\ last.status = "Ok") =>
                    pixels = GenerateRgb32(ContiguousTwin, <<>>, last.colors,
                                           last.key).pixels
        /\ (last.op = "with_interleaved_data") =>
              (last.status = "Panic"
                 <=> WithDataPanics(Cut(ContiguousData(src.shape), src.short),
                                    src.shape.height, src.shape.depth,
                                    src.shape.stride))

\* an interleaved bitmap of several planes and rows, two bytes per row, converted
C6_Witness ==
    /\ src.ctor = "with_interleaved_data" /\ ~src.short
    /\ bitmap.depth >= 2 /\ bitmap.height >= 2 /\ bitmap.stride = 2
    /\ bitmap.planes[1] # bitmap.planes[2]
    /\ mutations = 0
    /\ last.op = "generate_rgb32" /\ last.status = "Ok"
    /\ index_buffer # <<>>

----------------------------------------------------------------------------
(* Claims about Palette::to_rgba32_table (SpecPalette) *)

\* a 4-bit channel replicated into both nibbles of a byte: 0xA becomes 0xAA
Replicated(nibble) == nibble * 17

\* R << 24 | G << 16 | B << 8 | 0xFF for the 12-bit colour c, as 16-bit limbs
ExpectedEntry(c) ==
    << Replicated((c \div 256) % 16) * 256 + Replicated((c \div 16) % 16),
       Replicated(c % 16) * 256 + 255 >>

\* C5: for depth in 1..=5 the table has exactly 2^depth entries, entry i below
\* the colour count being R<<24 | G<<16 | B<<8 | 0xFF with each channel's
\* nibble replicated, every other entry 0; for any other depth the call fails
\* and returns no table.  The palette [0x006, 0xFFF, 0x390, 0x000] at depth 2
\* gives [0x000066FF, 0xFFFFFFFF, 0x339900FF, 0x000000FF].
C5_Rgba32Table ==
    table_call.called =>
        /\ IF table_call.depth \in 1..5
           THEN /\ table_call.status = "Ok"
                /\ Len(table_call.table) = 2 ^ table_call.depth
                /\ \A i \in 0..(2 ^ table_call.depth - 1) :
                      table_call.table[i + 1]
                        = IF i < Len(palette) THEN ExpectedEntry(palette[i + 1])
                          ELSE <<0, 0>>
           ELSE /\ table_call.status = "Err"
                /\ table_call.table = <<>>
        /\ (palette = TestPalette /\ table_call.depth = 2) =>
              table_call.table
                = << <<0, 26367>>, <<65535, 65535>>, <<13209, 255>>, <<0, 255>> >>

\* a 32-entry table of a palette shorter than it: colours, then transparent entries
C5_Witness ==
    /\ table_call.called /\ table_call.status = "Ok"
    /\ table_call.depth = 5
    /\ Len(palette) = 7
    /\ table_call.table[7] # <<0, 0>>
    /\ table_call.table[8] = <<0, 0>>

----------------------------------------------------------------------------
(* Claims about BitMap::build (SpecBuild) *)

\* C7: the stride build computes for a width is even and stride * 8 >= width,
\* so byte x div 8 of every pixel column x < width lies inside the row.
C7_StrideEvenAndCovers ==
    (last.op = "build" /\ last.status = "Ok") =>
        /\ bitmap.width = src.shape.width
        /\ bitmap.stride % 2 = 0
        /\ bitmap.stride * 8 >= bitmap.width
        /\ \A x \in 0..(bitmap.width - 1) : x \div 8 < bitmap.stride

\* a width that is not a multiple of 16: 17 pixels take 4 bytes
C7_Witness ==
    /\ last.op = "build" /\ last.status = "Ok"
    /\ bitmap.width = 17
    /\ bitmap.stride = 4

\* C8: build fails for every depth outside 1..=5 and returns no bitmap; for a
\* depth in 1..=5 it returns the given width, height and depth, the stride
\* ((width+15)>>3) & ~1, exactly depth planes of stride * height zero bytes
\* each, and an empty index cache.
C8_Build ==
    (last.op = "build") =>
        IF src.shape.depth < 1 \/ src.shape.depth > 5
        THEN /\ last.status = "Err"
             /\ bitmap = NewBitMap
        ELSE /\ last.status = "Ok"
             /\ bitmap.width = src.shape.width
             /\ bitmap.height = src.shape.height
             /\ bitmap.depth = src.shape.depth
             /\ bitmap.stride = 2 * ((src.shape.width + 15) \div 16)
             /\ Len(bitmap.planes) = src.shape.depth
             /\ \A p \in 1..Len(bitmap.planes) :
                   /\ Len(bitmap.planes[p]) = bitmap.stride * bitmap.height
                   /\ \A j \in 1..Len(bitmap.planes[p]) : bitmap.planes[p][j] = 0
             /\ index_buffer = <<>>

\* five planes of 6 * 2 zero bytes for a 33 x 2 bitmap
C8_Witness ==
    /\ last.op = "build" /\ last.status = "Ok"
    /\ bitmap.width = 33 /\ bitmap.height = 2 /\ bitmap.depth = 5
    /\ Len(bitmap.planes) = 5
    /\ Len(bitmap.planes[5]) = 12

----------------------------------------------------------------------------
(* Claims about the ByteRun1 decoder (SpecByteRun) *)

\* the run-length decoding of data[pos..end), positions counted from 0: a
\* control byte n >= 0 stands for the next n + 1 bytes, n in -127..-1 for the
\* next byte (-n) + 1 times, n = -128 for nothing
RECURSIVE Decoded(_, _, _)
Decoded(data, pos, end) ==
    IF pos >= end
    THEN <<>>
    ELSE LET n == IF data[pos + 1] > 127 THEN data[pos + 1] - 256 ELSE data[pos + 1]
         IN IF n >= 0
            THEN SubSeq(data, pos + 2, pos + 2 + n) \o Decoded(data, pos + 2 + n, end)
            ELSE IF n >= -127
            THEN [i \in 1..(1 - n) |-> data[pos + 2]] \o Decoded(data, pos + 2, end)
            ELSE Decoded(data, pos + 1, end)

\* C9: the decoder takes the control bytes in sequence and its output is the
\* concatenation of their runs in input order, after every iteration and at
\* the end; [0x02,0xAA,0xBB,0xCC,0xFE,0x11,0x00,0x99] decodes to
\* [0xAA,0xBB,0xCC,0x11,0x11,0x11,0x99].
C9_RunLengthDecode ==
    /\ body_status = "decoding" =>
          pixel_data = Decoded(input_data, offset, offset + body_offset)
    /\ body_status = "Ok" =>
          /\ image_pixels = Decoded(input_data, offset - chunk_size, offset)
          /\ (chunk_size = 8
                /\ SubSeq(input_data, offset - 7, offset) = ExampleBody) =>
                image_pixels = <<170, 187, 204, 17, 17, 17, 153>>

\* the example chunk, decoded
C9_Witness ==
    /\ body_status = "Ok"
    /\ chunk_size = 8
    /\ input_data = FilePrefix(8, 8) \o ExampleBody
    /\ image_pixels = <<170, 187, 204, 17, 17, 17, 153>>

\* C10: decoding consumes exactly chunk_size bytes: no read goes past the end
\* of the chunk or of the buffer; where one would, decoding fails with an
\* error value (it never panics, and never ends well having read further).
C10_ReadsStayInsideChunk ==
    /\ body_status # "Panic"
    /\ body_status \in {"decoding", "Ok"} => body_offset <= chunk_size
    /\ body_status = "Ok" => body_offset = chunk_size

----------------------------------------------------------------------------
(* Claims about the byte-cursor reads (SpecByteOps) *)

\* the number of bytes a fixed-width read needs
ReadWidth(op) ==
    IF op = "read_u8" THEN 1
    ELSE IF op \in {"read_u16", "read_i16"} THEN 2
    ELSE 4

\* the indices (0-based) at or after `at` that hold a NUL
NulsFrom(data, at) == {i \in at..(Len(data) - 1) : data[i + 1] = 0}

\* the first of them
FirstNul(data, at) ==
    CHOOSE i \in NulsFrom(data, at) : \A j \in NulsFrom(data, at) : i <= j

\* C17: every read checks that the bytes it needs are inside the buffer; when
\* they are not (offset + width > length, or no NUL ahead for read_string) it
\* fails with an error value, it never reads out of bounds and never aborts.
C17_ReadsReturnTruncated ==
    /\ cursor_last.status # "Panic"
    /\ (/\ cursor_last.op \in {"read_u8", "read_u16", "read_i16", "read_u32", "read_i32"}
        /\ cursor_last.at + ReadWidth(cursor_last.op) > Len(cursor_data))
          => cursor_last.status = "Err"
    /\ (/\ cursor_last.op = "read_string"
        /\ NulsFrom(cursor_data, cursor_last.at) = {})
          => cursor_last.status = "Err"

\* C18: read_string called at offset o returns the bytes from o up to, not
\* including, the first NUL at an index >= o (the empty string when the byte
\* at o is NUL), and leaves the offset no further than that NUL.
C18_ReadStringStopsAtFirstNul ==
    (/\ cursor_last.op = "read_string"
     /\ cursor_last.status = "Ok")
       => /\ NulsFrom(cursor_data, cursor_last.at) # {}
          /\ LET nul == FirstNul(cursor_data, cursor_last.at)
             IN /\ cursor_last.value = Slice(cursor_data, cursor_last.at, nul)
                /\ cursor_offset <= nul

----------------------------------------------------------------------------
(* Claims about the chunk loop of the image decoder (SpecIff) *)

\* n rounded up to the next even value
RoundUpEven(n) == 2 * ((n + 1) \div 2)

\* C11: after a chunk of any kind and any declared length is processed, the
\* next chunk id is read at (chunk data start + declared length) rounded up to
\* the next even value.
C11_NextChunkAtPaddedEnd ==
    [][(iff_status = "chunks" /\ iff_status' = "chunks" /\ iff_chunk' # iff_chunk)
          => iff_offset' = RoundUpEven(iff_offset + 8
                                       + AsUsize(read_u32(iff_data, iff_offset + 4).value))]_vars

----------------------------------------------------------------------------
(* Claims about the segment container loader (SpecHunk) *)

\* the 32-bit big-endian word at byte offset `at` of the file (words below 2^31)
WordAt(file, at) ==
    ((file[at + 1] * 256 + file[at + 2]) * 256 + file[at + 3]) * 256 + file[at + 4]

\* the word with its top two bits cleared
WordNoFlags(file, at) ==
    (((file[at + 1] % 64) * 256 + file[at + 2]) * 256 + file[at + 3]) * 256 + file[at + 4]

\* C12: an input whose first word is not 0x03F3 or whose second word is not
\* zero makes the loader return a MalformedHeader error value; it does not
\* panic.
C12_BadHeaderReturnsError ==
    (/\ hunk_status \notin {"idle", "start"}
     /\ Len(hunk_file) >= 8
     /\ WordAt(hunk_file, 0) # 1011 \/ WordAt(hunk_file, 4) # 0)
       => hunk_status = "Err"

\* C13: after the table size and the first and last index the loader reads one
\* size entry per slot, last - first + 1 of them, stores each as the raw value
\* without its top two bits times 4, and only then reads type tags.
C13_OneSizeEntryPerSlot ==
    (hunk_status \in {"tags", "Ok"} /\ WordAt(hunk_file, 12) <= WordAt(hunk_file, 16)) =>
        LET slots == WordAt(hunk_file, 16) - WordAt(hunk_file, 12) + 1
        IN /\ Len(hunk.header.hunk_sizes) = slots
           /\ \A i \in 1..slots :
                 hunk.header.hunk_sizes[i] = 4 * WordNoFlags(hunk_file, 20 + 4 * (i - 1))
           /\ hunk_tag = NoTag => hunk_offset = 20 + 4 * slots

\* C14: the k-th code or data segment's declared size (* 4) is compared with
\* the size recorded for slot first + k, the k-th recorded entry; on mismatch
\* the loader returns MalformedHeader, on match it appends the segment with its
\* tag and size, advances the slot index and goes on right after the payload.
C14_SegmentSizeChecked ==
    [][(/\ hunk_status = "tags"
        /\ hunk_offset + 8 <= Len(hunk_file)
        /\ WordAt(hunk_file, hunk_offset) \in {1001, 1002}
        /\ Len(hunk.hunks) < Len(hunk.header.hunk_sizes)
        /\ hunk_offset + 8 + 4 * WordAt(hunk_file, hunk_offset + 4) <= Len(hunk_file))
          => LET size == 4 * WordAt(hunk_file, hunk_offset + 4)
                 entry == hunk.header.hunk_sizes[Len(hunk.hunks) + 1]
             IN IF size # entry
                THEN hunk_status' = "Err"
                ELSE /\ hunk_status' = "tags"
                     /\ Len(hunk'.hunks) = Len(hunk.hunks) + 1
                     /\ SubSeq(hunk'.hunks, 1, Len(hunk.hunks)) = hunk.hunks
                     /\ hunk'.hunks[Len(hunk'.hunks)].hunk_id
                           = <<0, WordAt(hunk_file, hunk_offset)>>
                     /\ hunk'.hunks[Len(hunk'.hunks)].hunk_size = size
                     /\ hunk_index' = hunk_index + 1
                     /\ hunk_offset' = hunk_offset + 8 + size]_vars

\* C15: the end tag 0x03F2 stops parsing and the container is returned; a tag
\* other than code, data, relocation and end stops parsing with an
\* UnsupportedFeature error and is never skipped.
C15_UnknownTagIsAnError ==
    [][(hunk_status = "tags" /\ hunk_offset + 4 <= Len(hunk_file))
          => /\ WordAt(hunk_file, hunk_offset) = 1010
                => hunk_status' = "Ok" /\ hunk' = hunk
             /\ WordAt(hunk_file, hunk_offset) \notin {1001, 1002, 1004, 1010}
                => hunk_status' = "Err"]_vars

\* the offset after the count of 0 that ends the relocation runs starting at `at`
RECURSIVE RunsEnd(_, _)
RunsEnd(file, at) ==
    IF WordAt(file, at) = 0 THEN at + 4
    ELSE RunsEnd(file, at + 8 + 4 * WordAt(file, at))

\* C16: a relocation block changes no segment: payloads, sizes and order of
\* the segments parsed so far are the same after the block as before it, the
\* runs end at the first count of 0, and the cursor is then at the next tag.
C16_RelocationChangesNothing ==
    [][(/\ hunk_status = "tags"
        /\ hunk_offset + 4 <= Len(hunk_file)
        /\ WordAt(hunk_file, hunk_offset) = 1004
        /\ hunk_status' = "tags")
          => /\ hunk' = hunk
             /\ hunk_index' = hunk_index
             /\ hunk_offset' = RunsEnd(hunk_file, hunk_offset + 4)]_vars

\* a relocation block of at least one run with an offset has been processed
\* after a segment
C16_Witness ==
    /\ hunk_status = "tags"
    /\ hunk_tag.id = HUNK_RELOC32
    /\ Len(hunk.hunks) >= 1
    /\ hunk_offset >= hunk_tag.at + 20

----------------------------------------------------------------------------
(* Claims about the font payload parser (SpecFont) *)

\* the fields of the payload, taken from its bytes
StoredU8(at) == FontData[at + 1]

StoredI16(at) == I16FromBe(Slice(FontData, at, at + 2))

StoredI32(at) == I32FromBe(Slice(FontData, at, at + 4))

\* C19: for every font payload that load_font accepts, the glyph-location
\* table has exactly hi_char - lo_char + 1 entries; the spacing table is empty
\* when the declared spacing offset is zero and otherwise as long as the
\* location table, and likewise the kerning table.
C19_GlyphTableLengths ==
    font_status = "Ok" =>
        LET glyphs == StoredU8(91) - StoredU8(90) + 1
        IN /\ Len(font.char_loc) = glyphs
           /\ Len(font.char_space) = IF StoredI32(102) = 0 THEN 0 ELSE glyphs
           /\ Len(font.char_kern) = IF StoredI32(106) = 0 THEN 0 ELSE glyphs

\* a font of two glyphs with a spacing table and no kerning table was accepted
C19_Witness ==
    /\ font_status = "Ok"
    /\ StoredU8(91) = StoredU8(90) + 1
    /\ StoredI32(102) # 0
    /\ StoredI32(106) = 0
    /\ Len(font.char_loc) = 2
    /\ Len(font.char_space) = 2
    /\ font.char_kern = <<>>

\* mask byte k of the source byte b: 0xFF when bit 7-k of b is set
MaskByte(b, k) == IF (b \div (2 ^ (7 - k))) % 2 = 1 THEN 255 ELSE 0

\* C20: unpacking turns every packed source byte b of every row into 8 mask
\* bytes, mask byte k (0..7) being 0xFF when bit 7-k of b is set and 0x00
\* otherwise; rows are emitted in order; the unpacked mask has length
\* y_size * 8 * (stored modulo), and the font's modulo after loading is 8
\* times the stored modulo.
C20_UnpackedMask ==
    font_status \in {"unpack", "chars", "Ok"} =>
        LET stored == StoredI16(96)
            first == StoredI32(92)
        IN /\ Len(font.char_data) = font_yy * 8 * stored
           /\ \A yy \in 0..(font_yy - 1) : \A xx \in 0..(stored - 1) : \A k \in 0..7 :
                  font.char_data[(yy * stored + xx) * 8 + k + 1]
                      = MaskByte(StoredU8(first + yy * stored + xx), k)
           /\ font_status \in {"chars", "Ok"} =>
                  /\ Len(font.char_data) = StoredI16(78) * 8 * stored
                  /\ font.modulo = 8 * stored

\* a font of two rows of two bytes was loaded: the row 0xA5 0x0F comes first
C20_Witness ==
    /\ font_status = "Ok"
    /\ StoredI16(78) = 2
    /\ StoredI16(96) = 2
    /\ font.modulo = 16
    /\ Len(font.char_data) = 32
    /\ SubSeq(font.char_data, 1, 16)
           = <<255, 0, 255, 0, 0, 255, 0, 255, 0, 0, 0, 0, 255, 255, 255, 255>>

\* C21: load_font parses the payload only when the container holds exactly
\* one payload segment; for a container with no segment or with more than one
\* it returns an error and never indexes a missing segment.
C21_OneSegmentOrError ==
    (font_status \notin {"idle", "start"} /\ Len(font_hunk.hunks) # 1)
        => font_status = "Err"

----------------------------------------------------------------------------
(* Claims about the library loader (SpecLib) *)

\* the assets of the library, fonts first, and whether each one decodes
Decodes(asset_no) ==
    IF asset_no <= Len(lib_fonts)
    THEN FontAssetLoad(lib_fonts[asset_no]).status = "Ok"
    ELSE lib_images[asset_no - Len(lib_fonts)] = "Ok"

\* C22: when the decode of one asset fails, the loader records a warning for
\* it, still loads every remaining asset and returns the library: a single
\* asset's failure never aborts the load.
C22_FailureDoesNotAbort ==
    lib_status \notin {"idle", "loading"} =>
        /\ lib_status = "Ok"
        /\ \A asset_no \in 1..(Len(lib_fonts) + Len(lib_images)) :
               Decodes(asset_no) =>
                   asset_no <= Len(lib_loaded) /\ lib_loaded[asset_no].loaded

----------------------------------------------------------------------------
(* Claims about update_rgb32 on a caller's buffer (SpecUpdate) *)

\* byte j (0-based) of the buffer lies in the 4 * width bytes of some row
InRowWindow(j, stride) ==
    \E row \in 0..(bitmap.height - 1) :
        j >= row * stride /\ j < row * stride + bitmap.width * 4

\* the bytes the rows need: (height - 1) * s + width * 4
BytesNeeded(stride) ==
    IF bitmap.height = 0 THEN 0 ELSE (bitmap.height - 1) * stride + bitmap.width * 4

\* C23: update_rgb32 with a stride s >= width * 4 writes only the 4 * width
\* bytes starting at r * s of each row r < height and leaves every other byte
\* of the buffer unchanged; it never accesses a byte outside the buffer: when
\* the buffer is shorter than (height - 1) * s + width * 4 it returns an error.
C23_WritesOnlyRowWindows ==
    (last.op = "update_rgb32" /\ last.stride >= bitmap.width * 4) =>
        /\ last.status # "Panic"
        /\ Len(pixels) < BytesNeeded(last.stride) => last.status = "Err"
        /\ \A j \in 0..(Len(pixels) - 1) :
               ~InRowWindow(j, last.stride) => pixels[j + 1] = FillByte

\* C30: when update_rgb32 returns an error (buffer shorter than
\* width * height * 4, or a depth outside 1..5), it has written no byte of the
\* caller's buffer and has left the index cache as it was before the call.
C30_ErrorChangesNothing ==
    [][(last'.op = "update_rgb32" /\ last'.status = "Err") =>
          /\ pixels' = FreshBuffer(Len(pixels'))
          /\ index_buffer' = index_buffer]_vars

\* a call failed on a buffer that was too short, after a call that had filled
\* the index cache
C30_Witness ==
    /\ last.op = "update_rgb32"
    /\ last.status = "Err"
    /\ ~DepthRejected(bitmap.depth)
    /\ index_buffer # <<>>
    /\ Len(pixels) > 0
    /\ Len(pixels) < bitmap.width * bitmap.height * 4

----------------------------------------------------------------------------
(* Claims about GameSettings (SpecSettings) *)

\* the field a setter is about
FieldOf(object, op) ==
    CASE op = "set_volume" -> object.volume
      [] op = "set_music_volume" -> object.music_volume
      [] op = "set_muted" -> object.muted
      [] op = "set_fullscreen" -> object.fullscreen
      [] op = "set_window_size" -> object.window_size
      [] OTHER -> object.window_position

\* the value a setter was given, as its field holds it
GivenTo(op, arg) ==
    IF op \in {"set_window_size", "set_window_position"} THEN <<arg>> ELSE arg

\* C24: after any sequence of setter calls, a setter called with a value
\* different from the stored one stores that value and sets dirty, and a
\* setter call that leaves the stored value unchanged does not set dirty;
\* dirty is cleared only by a successful save, and save writes nothing when
\* dirty is false.
C24_DirtyTracksChanges ==
    [][/\ set_last'.op \notin {"new", "save"} =>
              LET op == set_last'.op
                  given == GivenTo(op, set_last'.arg[1])
              IN /\ given # FieldOf(settings, op) =>
                        FieldOf(settings', op) = given /\ settings'.dirty
                 /\ FieldOf(settings', op) = FieldOf(settings, op) =>
                        settings'.dirty = settings.dirty
       /\ (settings.dirty /\ ~settings'.dirty) =>
              set_last'.op = "save" /\ set_last'.status = "Ok"
       /\ (set_last'.op = "save" /\ ~settings.dirty) => ~set_last'.wrote]_vars

----------------------------------------------------------------------------
(* Claims about the wall clock (SpecWallClock) *)

\* the phase documented on the DayPhase variants for an hour of the day
DocumentedPhase(hour) ==
    IF hour \in 0..5 THEN "Midnight"
    ELSE IF hour \in 6..11 THEN "Morning"
    ELSE IF hour \in 12..17 THEN "Midday"
    ELSE "Evening"

\* C25: get_day_phase returns, for every value of game_ticks, Midnight when
\* the hour (game_ticks mod 24000) / 1000 is 0..5, Morning when it is 6..11,
\* Midday when it is 12..17 and Evening when it is 18..23.
C25_DayPhaseOfHour ==
    get_day_phase(clock.game_ticks)
        = DocumentedPhase((clock.game_ticks % 24000) \div 1000)

\* C28: after set_game_wall_clock(d, h, m), with h in 0..23 and m in 0..59,
\* get_game_wall_clock() returns (d, h, m).
C28_WallClockRoundTrip ==
    clock_last.op = "get_game_wall_clock" => clock_last.value = clock_args

----------------------------------------------------------------------------
(* Claims about pausing the clock (SpecClock) *)

\* C26: between pause and the next resume, updates leave total_ticks and
\* game_ticks unchanged; real time that elapses while paused is never
\* converted into ticks after resume; time elapsed before pause is counted up
\* to the moment of pausing.
C26_PausedTimeIsNotCounted ==
    [][/\ (clock.paused /\ clock_last'.op = "update") =>
              /\ clock'.total_ticks = clock.total_ticks
              /\ clock'.game_ticks = clock.game_ticks
       /\ clock'.total_ticks <= clock_run' \div NANOS_PER_TICK
       /\ clock'.game_ticks <= clock_run' \div NANOS_PER_TICK
       /\ (~clock.paused /\ clock_last'.op = "pause") =>
              /\ clock'.total_ticks - clock.total_ticks
                     = (clock.accumulated_nanos + clock_since) \div NANOS_PER_TICK
              /\ clock_since' = 0
              /\ clock'.accumulated_nanos < NANOS_PER_TICK]_vars

\* the clock was paused with ticks counted, time passed, the clock was
\* resumed and updated, and the paused time is missing from the ticks
C26_Witness ==
    /\ clock_last.op = "update"
    /\ ~clock.paused
    /\ clock.total_ticks >= 1
    /\ clock_steps > clock_run \div 10000000
    /\ clock_since = 0

----------------------------------------------------------------------------
(* Claims about the placard border (SpecPlacard) *)

\* C27: update returns true while segments remain and false once the task is
\* complete: with delta_ticks >= 1 the call that draws the last of the 272
\* steps, or the first call after it, reports completion; a call with
\* block_index already 17 returns false whatever delta_ticks is; segment_index
\* stays in 0..15 and block_index in 0..17.
C27_UpdateReportsCompletion ==
    [][plac_last'.op = "update" =>
          /\ plac.block_index = 17 => plac_last'.result = "false"
          /\ (plac_last'.delta_ticks >= 1 /\ plac'.block_index < 17) =>
                 plac_last'.result = "true"
          /\ (plac_last'.delta_ticks >= 1 /\ plac.block_index < 17
                  /\ plac'.block_index = 17 /\ plac_last'.result = "true") =>
                 (plac_drawn' # <<>> /\ plac_preview' = <<>>)
          /\ plac'.segment_index \in 0..15
          /\ plac'.block_index \in 0..17]_vars

\* lines are the lines of draw_placard_border from line number `from` on
IsBorderSlice(lines, from) ==
    /\ from >= 0
    /\ from + Len(lines) <= Len(draw_placard_border)
    /\ lines = SubSeq(draw_placard_border, from + 1, from + Len(lines))

\* the lines of the first `blocks` blocks and `segments` segments more
LinesBefore(blocks, segments) ==
    IF blocks < 7 THEN 4 * (16 * blocks + segments)
    ELSE 4 * 16 * 7 + 2 * (16 * (blocks - 7) + segments)

\* C29: started at origin (0, 0) and driven to completion by any sequence of
\* update calls, the renderer draws the lines of draw_placard_border in the
\* same order: each call continues where the last one stopped, left and right
\* lines only for blocks 0..6, top and bottom lines for blocks 0..16.
C29_SameLinesAsOneShot ==
    (plac_last.op = "update" /\ plac_last.origin = <<0, 0>>
         /\ plac_last.result # "Panic") =>
        LET after == LinesBefore(plac.block_index, plac.segment_index)
        IN /\ IsBorderSlice(plac_drawn, after - Len(plac_drawn))
           /\ IsBorderSlice(plac_preview, after)
           /\ plac.block_index < 17 => Len(plac_preview) \in {2, 4}
           /\ plac.block_index = 17 => after = Len(draw_placard_border)

\* the last update drew the last lines of the border, started at (0, 0)
C29_Witness ==
    /\ plac_last.op = "update"
    /\ plac_last.origin = <<0, 0>>
    /\ plac_last.block_index < 17
    /\ plac.block_index = 17
    /\ plac_drawn # <<>>

====
